---- MODULE Spec2Model ----
(***************************************************************************)
(* Prayer schedule of the salah crate: the schedule builder, the           *)
(* derivation of the daily instants from the solar times (schedule.rs,     *)
(* astronomy/solar.rs, astronomy/unit.rs, astronomy/ops.rs) and the        *)
(* current / next / time_remaining queries on a built schedule; and, on   *)
(* their own, the calendar functions of Stride (tomorrow, yesterday,       *)
(* julian_day), ops::julian_day, ops::days_since_solstice and the Angle    *)
(* functions unwound and quadrant_shifted.                                 *)
(*                                                                         *)
(* An instant is a whole number of seconds since 2015-01-01T00:00:00Z; a   *)
(* DateTime<Tz> is a record [t |-> instant, tz |-> offset of the zone in   *)
(* seconds].  An f64 hour value is kept in whole seconds as a sequence:    *)
(* <<s>> for a finite value of s seconds, <<>> for a non-finite one.  The  *)
(* trigonometric results of ops::corrected_transit and                     *)
(* ops::corrected_hour_angle and the polynomial of                         *)
(* ops::twilight_adjustments cannot be written in integer arithmetic;      *)
(* HourTable and TwilightTable hold the values these functions return for  *)
(* the coordinates and days of the model.                                  *)
(***************************************************************************)
EXTENDS Integers, Sequences, FiniteSets, TLC

VARIABLES
  schedDate,     \* Schedule.date: <<>> (None) or <<DateTime>>
  schedCoords,   \* Schedule.coordinates: <<>> (None) or <<Coordinates>>
  schedParams,   \* Schedule.params: <<>> (None) or <<Parameters>>
  ret,           \* value returned by the last call on the builder
  times,         \* the Times object the queries are made on (<<>> while there is none)
  now,           \* the instant the queries are asked about
  expected,      \* ExpectedPrayers returned by the last expected(): <<>> or <<record>>
  remaining,     \* pair returned by the last time_remaining(): <<>> or <<<<hours, minutes>>>>
  argHours,      \* the f64 hour value given to setting_hour (<<>> while there is none)
  argDate,       \* the DateTime given to setting_hour, rounded_minute, tomorrow, yesterday
                 \* and julian_day (<<>> while there is none)
  argAngle,      \* the Angle given to unwound and quadrant_shifted (<<>> while there is none)
  argLatitude    \* the latitude given to days_since_solstice (<<>> while there is none)

vars == <<schedDate, schedCoords, schedParams, ret, times, now, expected, remaining,
          argHours, argDate, argAngle, argLatitude>>

-----------------------------------------------------------------------------
(* Integer helpers: Rust's `/` and `%` on integers and `as i64` on floats   *)
(* truncate toward zero; `as u32` saturates at 0.                           *)

TruncDiv(a, b) == IF a >= 0 THEN a \div b ELSE -((-a) \div b)

TruncRem(a, b) == a - b * TruncDiv(a, b)

AsU32(x) == IF x < 0 THEN 0 ELSE x

-----------------------------------------------------------------------------
(* chrono calendar: year and ordinal of a day, counted from 2015-01-01.     *)

is_leap_year(year) == year % 400 = 0 \/ (year % 4 = 0 /\ year % 100 # 0)

DaysInYear(year) == IF is_leap_year(year) THEN 366 ELSE 365

RECURSIVE DaysBeforeYear(_)
DaysBeforeYear(year) ==
  IF year = 2015 THEN 0
  ELSE IF year > 2015 THEN DaysBeforeYear(year - 1) + DaysInYear(year - 1)
  ELSE DaysBeforeYear(year + 1) - DaysInYear(year)

\* day number of the local calendar day of d (NaiveDate of date_naive())
date_naive(d) == (d.t + d.tz) \div 86400

\* second of the local day of d
TimeOfDay(d) == (d.t + d.tz) % 86400

RECURSIVE YearFrom(_, _)
YearFrom(n, y) ==
  IF n < DaysBeforeYear(y) THEN YearFrom(n, y - 1)
  ELSE IF n >= DaysBeforeYear(y + 1) THEN YearFrom(n, y + 1)
  ELSE y

Year(d) == YearFrom(date_naive(d), 2015)

Ordinal(d) == date_naive(d) - DaysBeforeYear(Year(d)) + 1

\* the DateTime with the local calendar day (y, o) and local time of day s
FromYO(y, o, s, tz) == [t |-> (DaysBeforeYear(y) + o - 1) * 86400 + s - tz, tz |-> tz]

\* DateTime::with_ordinal: None when the year has no such day
with_ordinal(d, o) ==
  IF o >= 1 /\ o <= DaysInYear(Year(d))
  THEN <<FromYO(Year(d), o, TimeOfDay(d), d.tz)>>
  ELSE <<>>

-----------------------------------------------------------------------------
(* astronomy/unit.rs: Stride                                                *)

\* tomorrow for a calendar whose years all have 365 days
tomorrow_no_leap(d) ==
  IF Ordinal(d) + 1 <= 365
  THEN FromYO(Year(d), Ordinal(d) + 1, TimeOfDay(d), d.tz)
  ELSE FromYO(Year(d) + 1, 1, TimeOfDay(d), d.tz)

tomorrow(d) ==
  LET ordinal == Ordinal(d) + 1
  IN IF with_ordinal(d, ordinal) # <<>>
     THEN with_ordinal(d, ordinal)[1]
     ELSE FromYO(Year(d) + 1, 1, TimeOfDay(d), d.tz)

yesterday(d) ==
  LET ordinal == Ordinal(d) - 1
  IN IF with_ordinal(d, ordinal) # <<>>
     THEN with_ordinal(d, ordinal)[1]
     ELSE FromYO(Year(d) - 1, DaysInYear(Year(d) - 1), TimeOfDay(d), d.tz)

\* rounded_minute: the seconds of the minute decide; Up adds 60 - seconds
rounded_minute(d, rounding) ==
  LET seconds == (d.t + d.tz) % 60
  IN CASE rounding = "Nearest" ->
            IF seconds >= 30 THEN [d EXCEPT !.t = @ + (60 - seconds)]
                             ELSE [d EXCEPT !.t = @ - seconds]
       [] rounding = "Up" -> [d EXCEPT !.t = @ + (60 - seconds)]
       [] OTHER -> d

adjust_time(d, minutes) == [d EXCEPT !.t = @ + minutes * 60]

-----------------------------------------------------------------------------
(* astronomy/unit.rs: Coordinates.  Latitude and longitude are kept in      *)
(* units of 1/10000 degree.                                                 *)

Raleigh == [name |-> "Raleigh", latitude |-> 357750, longitude |-> -786336]

London == [name |-> "London", latitude |-> 515074, longitude |-> -1278]

Oslo == [name |-> "Oslo", latitude |-> 599094, longitude |-> 107349]

Tromso == [name |-> "Tromso", latitude |-> 696492, longitude |-> 189553]

\* a place on the 55th parallel
Lat55 == [name |-> "Lat55", latitude |-> 550000, longitude |-> -15000]

-----------------------------------------------------------------------------
(* astronomy/ops.rs: the hour values computed for the UTC day (year,        *)
(* ordinal) at a location, in seconds: corrected_transit (transit) and      *)
(* corrected_hour_angle for the altitude -50/60 degrees (rise, set), for    *)
(* -15, -18 and -18.5 degrees before (b150, b180, b185) and after (a150,    *)
(* a180, a185) transit, and for the afternoon altitude of shadow length 1   *)
(* and 2 (asr1, asr2).  <<>> is the NaN that acos returns when the sun      *)
(* never reaches the altitude.                                              *)

HourTable ==
  <<"Raleigh", 2015, 192>> :> [transit |-> <<62402>>, rise |-> <<36435>>, set |-> <<88353>>, b150 |-> <<31299>>, a150 |-> <<93476>>, b180 |-> <<30059>>, a180 |-> <<94711>>, b185 |-> <<29843>>, a185 |-> <<94925>>, asr1 |-> <<76123>>, asr2 |-> <<80530>>] @@
  <<"Raleigh", 2015, 193>> :> [transit |-> <<62410>>, rise |-> <<36471>>, set |-> <<88331>>, b150 |-> <<31348>>, a150 |-> <<93441>>, b180 |-> <<30112>>, a180 |-> <<94671>>, b185 |-> <<29898>>, a185 |-> <<94884>>, asr1 |-> <<76126>>, asr2 |-> <<80523>>] @@
  <<"Raleigh", 2015, 194>> :> [transit |-> <<62417>>, rise |-> <<36509>>, set |-> <<88307>>, b150 |-> <<31398>>, a150 |-> <<93404>>, b180 |-> <<30167>>, a180 |-> <<94629>>, b185 |-> <<29954>>, a185 |-> <<94841>>, asr1 |-> <<76130>>, asr2 |-> <<80515>>] @@
  <<"Raleigh", 2015, 195>> :> [transit |-> <<62424>>, rise |-> <<36547>>, set |-> <<88281>>, b150 |-> <<31449>>, a150 |-> <<93365>>, b180 |-> <<30224>>, a180 |-> <<94585>>, b185 |-> <<30011>>, a185 |-> <<94796>>, asr1 |-> <<76132>>, asr2 |-> <<80506>>] @@
  <<"Raleigh", 2015, 196>> :> [transit |-> <<62430>>, rise |-> <<36586>>, set |-> <<88254>>, b150 |-> <<31502>>, a150 |-> <<93324>>, b180 |-> <<30281>>, a180 |-> <<94539>>, b185 |-> <<30070>>, a185 |-> <<94749>>, asr1 |-> <<76134>>, asr2 |-> <<80496>>] @@
  <<"Raleigh", 2015, 365>> :> [transit |-> <<62249>>, rise |-> <<44657>>, set |-> <<79847>>, b150 |-> <<40098>>, a150 |-> <<84407>>, b180 |-> <<39171>>, a180 |-> <<85335>>, b185 |-> <<39017>>, a185 |-> <<85489>>, asr1 |-> <<71582>>, asr2 |-> <<73939>>] @@
  <<"Raleigh", 2016, 1>> :> [transit |-> <<62277>>, rise |-> <<44669>>, set |-> <<79892>>, b150 |-> <<40114>>, a150 |-> <<84449>>, b180 |-> <<39187>>, a180 |-> <<85377>>, b185 |-> <<39033>>, a185 |-> <<85531>>, asr1 |-> <<71626>>, asr2 |-> <<73985>>] @@
  <<"Raleigh", 2016, 2>> :> [transit |-> <<62305>>, rise |-> <<44680>>, set |-> <<79938>>, b150 |-> <<40128>>, a150 |-> <<84492>>, b180 |-> <<39201>>, a180 |-> <<85419>>, b185 |-> <<39048>>, a185 |-> <<85573>>, asr1 |-> <<71671>>, asr2 |-> <<74033>>] @@
  <<"Raleigh", 2016, 3>> :> [transit |-> <<62333>>, rise |-> <<44688>>, set |-> <<79986>>, b150 |-> <<40141>>, a150 |-> <<84536>>, b180 |-> <<39214>>, a180 |-> <<85463>>, b185 |-> <<39061>>, a185 |-> <<85616>>, asr1 |-> <<71718>>, asr2 |-> <<74081>>] @@
  <<"Raleigh", 2016, 4>> :> [transit |-> <<62361>>, rise |-> <<44695>>, set |-> <<80035>>, b150 |-> <<40151>>, a150 |-> <<84580>>, b180 |-> <<39226>>, a180 |-> <<85507>>, b185 |-> <<39073>>, a185 |-> <<85660>>, asr1 |-> <<71765>>, asr2 |-> <<74131>>] @@
  <<"London", 2015, 192>> :> [transit |-> <<43559>>, rise |-> <<14160>>, set |-> <<72920>>, b150 |-> <<4197>>, a150 |-> <<82742>>, b180 |-> <<>>, a180 |-> <<>>, b185 |-> <<>>, a185 |-> <<>>, asr1 |-> <<59125>>, asr2 |-> <<63499>>] @@
  <<"London", 2015, 193>> :> [transit |-> <<43567>>, rise |-> <<14224>>, set |-> <<72870>>, b150 |-> <<4391>>, a150 |-> <<82564>>, b180 |-> <<>>, a180 |-> <<>>, b185 |-> <<>>, a185 |-> <<>>, asr1 |-> <<59113>>, asr2 |-> <<63475>>] @@
  <<"London", 2015, 194>> :> [transit |-> <<43574>>, rise |-> <<14290>>, set |-> <<72818>>, b150 |-> <<4585>>, a150 |-> <<82387>>, b180 |-> <<>>, a180 |-> <<>>, b185 |-> <<>>, a185 |-> <<>>, asr1 |-> <<59099>>, asr2 |-> <<63450>>] @@
  <<"London", 2015, 195>> :> [transit |-> <<43581>>, rise |-> <<14358>>, set |-> <<72762>>, b150 |-> <<4778>>, a150 |-> <<82208>>, b180 |-> <<>>, a180 |-> <<>>, b185 |-> <<>>, a185 |-> <<>>, asr1 |-> <<59084>>, asr2 |-> <<63423>>] @@
  <<"London", 2015, 196>> :> [transit |-> <<43588>>, rise |-> <<14427>>, set |-> <<72704>>, b150 |-> <<4971>>, a150 |-> <<82030>>, b180 |-> <<>>, a180 |-> <<>>, b185 |-> <<>>, a185 |-> <<>>, asr1 |-> <<59067>>, asr2 |-> <<63394>>] @@
  <<"London", 2015, 365>> :> [transit |-> <<43401>>, rise |-> <<29174>>, set |-> <<57637>>, b150 |-> <<22959>>, a150 |-> <<63855>>, b180 |-> <<21751>>, a180 |-> <<65063>>, b185 |-> <<21552>>, a185 |-> <<65263>>, asr1 |-> <<49476>>, asr2 |-> <<51265>>] @@
  <<"London", 2016, 1>> :> [transit |-> <<43429>>, rise |-> <<29172>>, set |-> <<57698>>, b150 |-> <<22964>>, a150 |-> <<63908>>, b180 |-> <<21758>>, a180 |-> <<65116>>, b185 |-> <<21559>>, a185 |-> <<65315>>, asr1 |-> <<49532>>, asr2 |-> <<51325>>] @@
  <<"London", 2016, 2>> :> [transit |-> <<43458>>, rise |-> <<29166>>, set |-> <<57761>>, b150 |-> <<22967>>, a150 |-> <<63963>>, b180 |-> <<21761>>, a180 |-> <<65170>>, b185 |-> <<21562>>, a185 |-> <<65369>>, asr1 |-> <<49589>>, asr2 |-> <<51387>>] @@
  <<"London", 2016, 3>> :> [transit |-> <<43486>>, rise |-> <<29157>>, set |-> <<57827>>, b150 |-> <<22967>>, a150 |-> <<64020>>, b180 |-> <<21762>>, a180 |-> <<65226>>, b185 |-> <<21563>>, a185 |-> <<65425>>, asr1 |-> <<49649>>, asr2 |-> <<51452>>] @@
  <<"London", 2016, 4>> :> [transit |-> <<43513>>, rise |-> <<29145>>, set |-> <<57896>>, b150 |-> <<22964>>, a150 |-> <<64079>>, b180 |-> <<21760>>, a180 |-> <<65284>>, b185 |-> <<21562>>, a185 |-> <<65483>>, asr1 |-> <<49711>>, asr2 |-> <<51519>>] @@
  <<"Oslo", 2015, 192>> :> [transit |-> <<40952>>, rise |-> <<8014>>, set |-> <<73818>>, b150 |-> <<>>, a150 |-> <<>>, b180 |-> <<>>, a180 |-> <<>>, b185 |-> <<>>, a185 |-> <<>>, asr1 |-> <<57531>>, asr2 |-> <<62138>>] @@
  <<"Oslo", 2015, 193>> :> [transit |-> <<40960>>, rise |-> <<8117>>, set |-> <<73728>>, b150 |-> <<>>, a150 |-> <<>>, b180 |-> <<>>, a180 |-> <<>>, b185 |-> <<>>, a185 |-> <<>>, asr1 |-> <<57508>>, asr2 |-> <<62102>>] @@
  <<"Oslo", 2015, 194>> :> [transit |-> <<40967>>, rise |-> <<8223>>, set |-> <<73634>>, b150 |-> <<>>, a150 |-> <<>>, b180 |-> <<>>, a180 |-> <<>>, b185 |-> <<>>, a185 |-> <<>>, asr1 |-> <<57483>>, asr2 |-> <<62062>>] @@
  <<"Oslo", 2015, 195>> :> [transit |-> <<40974>>, rise |-> <<8332>>, set |-> <<73537>>, b150 |-> <<>>, a150 |-> <<>>, b180 |-> <<>>, a180 |-> <<>>, b185 |-> <<>>, a185 |-> <<>>, asr1 |-> <<57455>>, asr2 |-> <<62020>>] @@
  <<"Oslo", 2015, 196>> :> [transit |-> <<40980>>, rise |-> <<8443>>, set |-> <<73436>>, b150 |-> <<>>, a150 |-> <<>>, b180 |-> <<>>, a180 |-> <<>>, b185 |-> <<>>, a185 |-> <<>>, asr1 |-> <<57426>>, asr2 |-> <<61976>>] @@
  <<"Oslo", 2015, 365>> :> [transit |-> <<40793>>, rise |-> <<29945>>, set |-> <<51654>>, b150 |-> <<21610>>, a150 |-> <<59992>>, b180 |-> <<20101>>, a180 |-> <<61502>>, b185 |-> <<19854>>, a185 |-> <<61749>>, asr1 |-> <<44149>>, asr2 |-> <<45266>>] @@
  <<"Oslo", 2016, 1>> :> [transit |-> <<40822>>, rise |-> <<29922>>, set |-> <<51735>>, b150 |-> <<21606>>, a150 |-> <<60054>>, b180 |-> <<20098>>, a180 |-> <<61563>>, b185 |-> <<19851>>, a185 |-> <<61811>>, asr1 |-> <<44216>>, asr2 |-> <<45341>>] @@
  <<"Oslo", 2016, 2>> :> [transit |-> <<40850>>, rise |-> <<29894>>, set |-> <<51821>>, b150 |-> <<21598>>, a150 |-> <<60120>>, b180 |-> <<20092>>, a180 |-> <<61628>>, b185 |-> <<19845>>, a185 |-> <<61875>>, asr1 |-> <<44287>>, asr2 |-> <<45419>>] @@
  <<"Oslo", 2016, 3>> :> [transit |-> <<40878>>, rise |-> <<29861>>, set |-> <<51911>>, b150 |-> <<21587>>, a150 |-> <<60189>>, b180 |-> <<20082>>, a180 |-> <<61695>>, b185 |-> <<19835>>, a185 |-> <<61942>>, asr1 |-> <<44359>>, asr2 |-> <<45501>>] @@
  <<"Oslo", 2016, 4>> :> [transit |-> <<40905>>, rise |-> <<29822>>, set |-> <<52006>>, b150 |-> <<21572>>, a150 |-> <<60260>>, b180 |-> <<20069>>, a180 |-> <<61765>>, b185 |-> <<19822>>, a185 |-> <<62012>>, asr1 |-> <<44435>>, asr2 |-> <<45587>>] @@
  <<"Tromso", 2015, 192>> :> [transit |-> <<38979>>, rise |-> <<>>, set |-> <<>>, b150 |-> <<>>, a150 |-> <<>>, b180 |-> <<>>, a180 |-> <<>>, b185 |-> <<>>, a185 |-> <<>>, asr1 |-> <<57167>>, asr2 |-> <<62482>>] @@
  <<"Tromso", 2015, 193>> :> [transit |-> <<38987>>, rise |-> <<>>, set |-> <<>>, b150 |-> <<>>, a150 |-> <<>>, b180 |-> <<>>, a180 |-> <<>>, b185 |-> <<>>, a185 |-> <<>>, asr1 |-> <<57124>>, asr2 |-> <<62418>>] @@
  <<"Tromso", 2015, 194>> :> [transit |-> <<38994>>, rise |-> <<>>, set |-> <<>>, b150 |-> <<>>, a150 |-> <<>>, b180 |-> <<>>, a180 |-> <<>>, b185 |-> <<>>, a185 |-> <<>>, asr1 |-> <<57079>>, asr2 |-> <<62351>>] @@
  <<"Tromso", 2015, 195>> :> [transit |-> <<39001>>, rise |-> <<>>, set |-> <<>>, b150 |-> <<>>, a150 |-> <<>>, b180 |-> <<>>, a180 |-> <<>>, b185 |-> <<>>, a185 |-> <<>>, asr1 |-> <<57030>>, asr2 |-> <<62280>>] @@
  <<"Tromso", 2015, 196>> :> [transit |-> <<39007>>, rise |-> <<>>, set |-> <<>>, b150 |-> <<>>, a150 |-> <<>>, b180 |-> <<>>, a180 |-> <<>>, b185 |-> <<>>, a185 |-> <<>>, asr1 |-> <<56979>>, asr2 |-> <<62205>>] @@
  <<"Tromso", 2015, 365>> :> [transit |-> <<38819>>, rise |-> <<>>, set |-> <<>>, b150 |-> <<22006>>, a150 |-> <<55654>>, b180 |-> <<19767>>, a180 |-> <<57896>>, b185 |-> <<19405>>, a185 |-> <<58258>>, asr1 |-> <<40732>>, asr2 |-> <<41446>>] @@
  <<"Tromso", 2016, 1>> :> [transit |-> <<38848>>, rise |-> <<>>, set |-> <<>>, b150 |-> <<21981>>, a150 |-> <<55739>>, b180 |-> <<19745>>, a180 |-> <<57977>>, b185 |-> <<19384>>, a185 |-> <<58339>>, asr1 |-> <<40742>>, asr2 |-> <<41425>>] @@
  <<"Tromso", 2016, 2>> :> [transit |-> <<38876>>, rise |-> <<>>, set |-> <<>>, b150 |-> <<21950>>, a150 |-> <<55829>>, b180 |-> <<19718>>, a180 |-> <<58063>>, b185 |-> <<19357>>, a185 |-> <<58424>>, asr1 |-> <<40749>>, asr2 |-> <<41399>>] @@
  <<"Tromso", 2016, 3>> :> [transit |-> <<38904>>, rise |-> <<>>, set |-> <<>>, b150 |-> <<21913>>, a150 |-> <<55924>>, b180 |-> <<19686>>, a180 |-> <<58154>>, b185 |-> <<19325>>, a185 |-> <<58515>>, asr1 |-> <<40754>>, asr2 |-> <<41367>>] @@
  <<"Tromso", 2016, 4>> :> [transit |-> <<38932>>, rise |-> <<>>, set |-> <<>>, b150 |-> <<21871>>, a150 |-> <<56024>>, b180 |-> <<19648>>, a180 |-> <<58250>>, b185 |-> <<19288>>, a185 |-> <<58610>>, asr1 |-> <<40758>>, asr2 |-> <<41330>>] @@
  <<"Lat55", 2015, 192>> :> [transit |-> <<43888>>, rise |-> <<13286>>, set |-> <<74443>>, b150 |-> <<>>, a150 |-> <<>>, b180 |-> <<>>, a180 |-> <<>>, b185 |-> <<>>, a185 |-> <<>>, asr1 |-> <<59858>>, asr2 |-> <<64302>>] @@
  <<"Lat55", 2015, 193>> :> [transit |-> <<43896>>, rise |-> <<13362>>, set |-> <<74381>>, b150 |-> <<>>, a150 |-> <<>>, b180 |-> <<>>, a180 |-> <<>>, b185 |-> <<>>, a185 |-> <<>>, asr1 |-> <<59841>>, asr2 |-> <<64273>>] @@
  <<"Lat55", 2015, 194>> :> [transit |-> <<43904>>, rise |-> <<13440>>, set |-> <<74316>>, b150 |-> <<>>, a150 |-> <<>>, b180 |-> <<>>, a180 |-> <<>>, b185 |-> <<>>, a185 |-> <<>>, asr1 |-> <<59823>>, asr2 |-> <<64243>>] @@
  <<"Lat55", 2015, 195>> :> [transit |-> <<43911>>, rise |-> <<13520>>, set |-> <<74248>>, b150 |-> <<>>, a150 |-> <<>>, b180 |-> <<>>, a180 |-> <<>>, b185 |-> <<>>, a185 |-> <<>>, asr1 |-> <<59803>>, asr2 |-> <<64210>>] @@
  <<"Lat55", 2015, 196>> :> [transit |-> <<43917>>, rise |-> <<13602>>, set |-> <<74177>>, b150 |-> <<>>, a150 |-> <<>>, b180 |-> <<>>, a180 |-> <<>>, b185 |-> <<>>, a185 |-> <<>>, asr1 |-> <<59782>>, asr2 |-> <<64176>>] @@
  <<"Lat55", 2015, 365>> :> [transit |-> <<43730>>, rise |-> <<30664>>, set |-> <<56807>>, b150 |-> <<23763>>, a150 |-> <<63711>>, b180 |-> <<22450>>, a180 |-> <<65025>>, b185 |-> <<22234>>, a185 |-> <<65241>>, asr1 |-> <<48788>>, asr2 |-> <<50355>>] @@
  <<"Lat55", 2016, 1>> :> [transit |-> <<43759>>, rise |-> <<30656>>, set |-> <<56874>>, b150 |-> <<23765>>, a150 |-> <<63768>>, b180 |-> <<22453>>, a180 |-> <<65080>>, b185 |-> <<22237>>, a185 |-> <<65297>>, asr1 |-> <<48848>>, asr2 |-> <<50420>>] @@
  <<"Lat55", 2016, 2>> :> [transit |-> <<43787>>, rise |-> <<30643>>, set |-> <<56944>>, b150 |-> <<23764>>, a150 |-> <<63827>>, b180 |-> <<22453>>, a180 |-> <<65138>>, b185 |-> <<22237>>, a185 |-> <<65354>>, asr1 |-> <<48910>>, asr2 |-> <<50488>>] @@
  <<"Lat55", 2016, 3>> :> [transit |-> <<43815>>, rise |-> <<30627>>, set |-> <<57018>>, b150 |-> <<23759>>, a150 |-> <<63888>>, b180 |-> <<22450>>, a180 |-> <<65199>>, b185 |-> <<22234>>, a185 |-> <<65414>>, asr1 |-> <<48974>>, asr2 |-> <<50559>>] @@
  <<"Lat55", 2016, 4>> :> [transit |-> <<43843>>, rise |-> <<30606>>, set |-> <<57094>>, b150 |-> <<23752>>, a150 |-> <<63952>>, b180 |-> <<22444>>, a180 |-> <<65261>>, b185 |-> <<22229>>, a185 |-> <<65477>>, asr1 |-> <<49041>>, asr2 |-> <<50632>>]

\* ops::corrected_transit for the day and place of a SolarTime
corrected_transit(c, y, o) == HourTable[<<c.name, y, o>>].transit

\* ops::corrected_hour_angle; angle is [kind |-> "horizon"] (-50/60 degrees),
\* [kind |-> "below", v |-> tenths of a degree below the horizon] or
\* [kind |-> "shadow", v |-> shadow length] (the afternoon altitude)
corrected_hour_angle(c, y, o, angle, after_transit) ==
  LET row == HourTable[<<c.name, y, o>>]
  IN CASE angle.kind = "horizon" -> IF after_transit THEN row.set ELSE row.rise
       [] angle.kind = "below" /\ angle.v = 150 -> IF after_transit THEN row.a150 ELSE row.b150
       [] angle.kind = "below" /\ angle.v = 180 -> IF after_transit THEN row.a180 ELSE row.b180
       [] angle.kind = "below" /\ angle.v = 185 -> IF after_transit THEN row.a185 ELSE row.b185
       [] angle.kind = "shadow" /\ angle.v = 1 -> row.asr1
       [] angle.kind = "shadow" /\ angle.v = 2 -> row.asr2

(* ops::twilight_adjustments: minutes of the seasonal adjustment, times 60  *)
(* and rounded, for a location and a number of days since the solstice.     *)

TwilightTable ==
  <<"London", 11>> :> [morning |-> 6047, General |-> 5779, Ahmer |-> 4531, Abyad |-> 5813] @@
  <<"London", 12>> :> [morning |-> 6042, General |-> 5764, Ahmer |-> 4516, Abyad |-> 5802] @@
  <<"London", 13>> :> [morning |-> 6036, General |-> 5749, Ahmer |-> 4501, Abyad |-> 5790] @@
  <<"London", 203>> :> [morning |-> 6827, General |-> 4470, Ahmer |-> 4462, Abyad |-> 7999] @@
  <<"London", 204>> :> [morning |-> 6809, General |-> 4451, Ahmer |-> 4445, Abyad |-> 7944] @@
  <<"London", 205>> :> [morning |-> 6790, General |-> 4432, Ahmer |-> 4428, Abyad |-> 7889] @@
  <<"Oslo", 11>> :> [morning |-> 6300, General |-> 5987, Ahmer |-> 4663, Abyad |-> 6027] @@
  <<"Oslo", 12>> :> [morning |-> 6293, General |-> 5970, Ahmer |-> 4646, Abyad |-> 6014] @@
  <<"Oslo", 13>> :> [morning |-> 6286, General |-> 5953, Ahmer |-> 4628, Abyad |-> 6001] @@
  <<"Oslo", 203>> :> [morning |-> 7207, General |-> 4465, Ahmer |-> 4584, Abyad |-> 8570] @@
  <<"Oslo", 204>> :> [morning |-> 7185, General |-> 4443, Ahmer |-> 4563, Abyad |-> 8506] @@
  <<"Oslo", 205>> :> [morning |-> 7164, General |-> 4421, Ahmer |-> 4543, Abyad |-> 8442] @@
  <<"Raleigh", 11>> :> [morning |-> 5575, General |-> 5388, Ahmer |-> 4283, Abyad |-> 5412] @@
  <<"Raleigh", 12>> :> [morning |-> 5571, General |-> 5378, Ahmer |-> 4273, Abyad |-> 5404] @@
  <<"Raleigh", 13>> :> [morning |-> 5567, General |-> 5368, Ahmer |-> 4262, Abyad |-> 5396] @@
  <<"Raleigh", 203>> :> [morning |-> 6117, General |-> 4479, Ahmer |-> 4236, Abyad |-> 6930] @@
  <<"Raleigh", 204>> :> [morning |-> 6104, General |-> 4466, Ahmer |-> 4224, Abyad |-> 6892] @@
  <<"Raleigh", 205>> :> [morning |-> 6091, General |-> 4453, Ahmer |-> 4211, Abyad |-> 6854] @@
  <<"Tromso", 11>> :> [morning |-> 6592, General |-> 6229, Ahmer |-> 4816, Abyad |-> 6276] @@
  <<"Tromso", 12>> :> [morning |-> 6585, General |-> 6209, Ahmer |-> 4796, Abyad |-> 6260] @@
  <<"Tromso", 13>> :> [morning |-> 6577, General |-> 6189, Ahmer |-> 4775, Abyad |-> 6245] @@
  <<"Tromso", 203>> :> [morning |-> 7647, General |-> 4459, Ahmer |-> 4724, Abyad |-> 9232] @@
  <<"Tromso", 204>> :> [morning |-> 7622, General |-> 4434, Ahmer |-> 4700, Abyad |-> 9157] @@
  <<"Tromso", 205>> :> [morning |-> 7597, General |-> 4409, Ahmer |-> 4677, Abyad |-> 9083] @@
  <<"Lat55", 11>> :> [morning |-> 6152, General |-> 5865, Ahmer |-> 4586, Abyad |-> 5902] @@
  <<"Lat55", 12>> :> [morning |-> 6146, General |-> 5850, Ahmer |-> 4570, Abyad |-> 5890] @@
  <<"Lat55", 13>> :> [morning |-> 6140, General |-> 5834, Ahmer |-> 4553, Abyad |-> 5878] @@
  <<"Lat55", 203>> :> [morning |-> 6985, General |-> 4468, Ahmer |-> 4513, Abyad |-> 8236] @@
  <<"Lat55", 204>> :> [morning |-> 6965, General |-> 4448, Ahmer |-> 4494, Abyad |-> 8178] @@
  <<"Lat55", 205>> :> [morning |-> 6945, General |-> 4428, Ahmer |-> 4475, Abyad |-> 8119]

twilight_adjustments(daytime, c, dyy, shafaq) ==
  LET row == TwilightTable[<<c.name, dyy>>]
  IN IF daytime = "Morning" THEN row.morning
     ELSE CASE shafaq = "General" -> row.General
            [] shafaq = "Ahmer" -> row.Ahmer
            [] shafaq = "Abyad" -> row.Abyad

\* ops::days_since_solstice; <<>> when the u32 subtraction underflows
days_since_solstice(day_of_year, year, latitude) ==
  LET days_in_year == IF is_leap_year(year) THEN 366 ELSE 365
  IN IF latitude < 0
     THEN LET southern_offset == IF is_leap_year(year) THEN 173 ELSE 172
          IN IF day_of_year < southern_offset THEN <<>>
             ELSE <<(day_of_year - southern_offset) + days_in_year>>
     ELSE LET lapsed_days == day_of_year + 10
          IN IF lapsed_days >= days_in_year THEN <<lapsed_days - days_in_year>>
             ELSE <<lapsed_days>>

\* ops::season_adjusted_morning_twilight
season_adjusted_morning_twilight(c, day, year, sunrise) ==
  LET dyy == days_since_solstice(day, year, c.latitude)[1]
      rounded_adjustment == -twilight_adjustments("Morning", c, dyy, "General")
  IN [sunrise EXCEPT !.t = @ + rounded_adjustment]

\* ops::season_adjusted_evening_twilight
season_adjusted_evening_twilight(c, day, year, sunset, shafaq) ==
  LET dyy == days_since_solstice(day, year, c.latitude)[1]
      rounded_adjustment == twilight_adjustments("Evening", c, dyy, shafaq)
  IN rounded_minute([sunset EXCEPT !.t = @ + rounded_adjustment], "Nearest")

-----------------------------------------------------------------------------
(* astronomy/solar.rs: SolarTime                                            *)

\* f64::is_normal: finite and not zero
is_normal(hours) == hours # <<>> /\ hours[1] # 0

hour_adjustment(calculated_hours, d) ==
  IF calculated_hours < 0
  THEN [hour |-> AsU32(calculated_hours + 24), date |-> yesterday(d)]
  ELSE IF calculated_hours >= 24
  THEN [hour |-> AsU32(calculated_hours - 24), date |-> tomorrow(d)]
  ELSE [hour |-> AsU32(calculated_hours), date |-> d]

\* setting_hour, "Round to the nearest minute": whole minutes of the hour value
\* (in seconds) plus the rounded seconds
rounded_to_minute(hours) ==
  (hours % 3600) \div 60 + (IF hours % 60 >= 30 THEN 1 ELSE 0)

\* setting_hour, the carry of whole days and Utc.with_ymd_and_hms(..) taken
\* back to the zone of the date
with_day_carry(adjusted_hour, adjusted_date, adjusted_mins, tz) ==
  [t |-> (date_naive(adjusted_date)
            + (IF adjusted_hour >= 24 THEN adjusted_hour \div 24 ELSE 0)) * 86400
         + (IF adjusted_hour >= 24 THEN adjusted_hour % 24 ELSE adjusted_hour) * 3600
         + adjusted_mins * 60,
   tz |-> tz]

\* setting_hour, the carry of minutes into hours
with_minute_carry(adjusted, adjusted_mins, tz) ==
  with_day_carry(IF adjusted_mins >= 60 THEN adjusted.hour + adjusted_mins \div 60
                                        ELSE adjusted.hour,
                 adjusted.date,
                 IF adjusted_mins >= 60 THEN adjusted_mins % 60 ELSE adjusted_mins,
                 tz)

\* setting_hour: None (<<>>) for a value that is not normal, else the instant
\* of the hour value on the day of d, rounded to the minute
setting_hour(hours, d) ==
  IF is_normal(hours)
  THEN <<with_minute_carry(hour_adjustment(hours[1] \div 3600, d),
                           rounded_to_minute(hours[1]), d.tz)>>
  ELSE <<>>

\* the three hour values of SolarTime::new, before setting_hour(..).unwrap()
SolarHours(d, c) ==
  [transit |-> corrected_transit(c, Year(d), Ordinal(d)),
   sunrise |-> corrected_hour_angle(c, Year(d), Ordinal(d), [kind |-> "horizon"], FALSE),
   sunset  |-> corrected_hour_angle(c, Year(d), Ordinal(d), [kind |-> "horizon"], TRUE)]

\* SolarTime::new panics when an unwrap meets None
SolarTimePanics(d, c) ==
  \/ setting_hour(SolarHours(d, c).transit, d) = <<>>
  \/ setting_hour(SolarHours(d, c).sunrise, d) = <<>>
  \/ setting_hour(SolarHours(d, c).sunset, d) = <<>>

SolarTime(d, c) ==
  [date |-> d, observer |-> c,
   transit |-> setting_hour(SolarHours(d, c).transit, d)[1],
   sunrise |-> setting_hour(SolarHours(d, c).sunrise, d)[1],
   sunset  |-> setting_hour(SolarHours(d, c).sunset, d)[1]]

\* time_for_solar_angle before the unwrap
time_for_solar_angle(st, angle, after_transit) ==
  setting_hour(corrected_hour_angle(st.observer, Year(st.date), Ordinal(st.date),
                                    angle, after_transit), st.date)

\* afternoon before the unwrap of time_for_solar_angle
afternoon(st, shadow_length) ==
  time_for_solar_angle(st, [kind |-> "shadow", v |-> shadow_length], TRUE)

-----------------------------------------------------------------------------
(* chrono calendar: month and day of the month of a day.                    *)

DaysInMonth(year, month) ==
  IF month = 2 THEN (IF is_leap_year(year) THEN 29 ELSE 28)
  ELSE IF month \in {4, 6, 9, 11} THEN 30 ELSE 31

\* month that holds day o of the year, searching from month m
RECURSIVE MonthFrom(_, _, _)
MonthFrom(year, o, m) ==
  IF o <= DaysInMonth(year, m) THEN m ELSE MonthFrom(year, o - DaysInMonth(year, m), m + 1)

\* day of the month of day o of the year, searching from month m
RECURSIVE DayFrom(_, _, _)
DayFrom(year, o, m) ==
  IF o <= DaysInMonth(year, m) THEN o ELSE DayFrom(year, o - DaysInMonth(year, m), m + 1)

Month(d) == MonthFrom(Year(d), Ordinal(d), 1)

Day(d) == DayFrom(Year(d), Ordinal(d), 1)

-----------------------------------------------------------------------------
(* astronomy/ops.rs: julian_day.  The f64 result is kept in half days       *)
(* (twice the Julian day), `hours` in whole hours that are a multiple of    *)
(* 12; in these units every term of the sum is a whole number.              *)
(* `(365.25 * y) as i32` and `(30.6001 * m) as i32` truncate toward zero.   *)

\* julian_day without the move of January and February to the previous year
julian_day_unshifted(year, month, day, hours) ==
  LET a == TruncDiv(year, 100)
      b == 2 - a + TruncDiv(a, 4)
      i0 == TruncDiv(1461 * (year + 4716), 4)
      i1 == TruncDiv(306001 * (month + 1), 10000)
  IN 2 * i0 + 2 * i1 + (2 * day + TruncDiv(hours, 12)) + 2 * b - 3049

julian_day(year, month, day, hours) ==
  LET adjusted_year == IF month > 2 THEN year ELSE year - 1
      adjusted_month == IF month > 2 THEN month ELSE month + 12
      adjusted_day == 2 * day + TruncDiv(hours, 12)
      a == TruncDiv(adjusted_year, 100)
      b == 2 - a + TruncDiv(a, 4)
      i0 == TruncDiv(1461 * (adjusted_year + 4716), 4)
      i1 == TruncDiv(306001 * (adjusted_month + 1), 10000)
  IN 2 * i0 + 2 * i1 + adjusted_day + 2 * b - 3049

\* Stride::julian_day of a DateTime
stride_julian_day(d) == julian_day(Year(d), Month(d), Day(d), 0)

-----------------------------------------------------------------------------
(* astronomy/unit.rs: Normalize and Angle.  An f64 number of degrees is     *)
(* the pair <<k, s>> of the value k / 2^s.  The model holds two families of  *)
(* such values: multiples of 1/2^s with s <= ExactScale and a magnitude of   *)
(* a few turns, for which every quotient has the floor and the rounding of   *)
(* the exact quotient and every fused multiply-add below is exact in f64;    *)
(* and the values 1 / 2^s and -1 / 2^s with s >= TinyScale, which are at     *)
(* most half the distance (1 / 2^44) between neighbouring f64 values next to *)
(* 360.                                                                      *)

ExactScale == 2

TinyScale == 45

RECURSIVE Pow2(_)
Pow2(s) == IF s = 0 THEN 1 ELSE 2 * Pow2(s - 1)

\* (self / max).floor()
floor_of_quotient(x, max) ==
  IF x[2] <= ExactScale THEN x[1] \div (max * Pow2(x[2]))
  ELSE IF x[1] >= 0 THEN 0 ELSE -1

\* (self / max).round(): halves are rounded away from zero
round_of_quotient(x, max) ==
  IF x[2] <= ExactScale
  THEN IF x[1] >= 0 THEN (2 * x[1] + max * Pow2(x[2])) \div (2 * max * Pow2(x[2]))
       ELSE -((2 * (-x[1]) + max * Pow2(x[2])) \div (2 * max * Pow2(x[2])))
  ELSE 0

\* max.mul_add(-n, x), rounded once to the nearest f64 (ties to even): exact
\* for the first family; for the second x itself when n = 0, and otherwise
\* the whole number max * (-n), which has an even significand
mul_add(max, n, x) ==
  IF x[2] <= ExactScale THEN <<x[1] - max * n * Pow2(x[2]), x[2]>>
  ELSE IF n = 0 THEN x
  ELSE <<max * (-n), 0>>

\* Normalize::normalized_to_scale
normalized_to_scale(x, max) == mul_add(max, floor_of_quotient(x, max), x)

\* Angle::unwound
unwound(a) == normalized_to_scale(a, 360)

\* self.degrees >= -180.0 && self.degrees <= 180.0
within_half_turn(a) ==
  IF a[2] <= ExactScale
  THEN a[1] >= -180 * Pow2(a[2]) /\ a[1] <= 180 * Pow2(a[2])
  ELSE TRUE

\* Angle::quadrant_shifted
quadrant_shifted(a) ==
  IF within_half_turn(a) THEN a
  ELSE mul_add(360, round_of_quotient(a, 360), a)

-----------------------------------------------------------------------------
(* models: Parameters.  Angles are in tenths of a degree.                   *)

NoAdjustment == [fajr |-> 0, sunrise |-> 0, dhuhr |-> 0, asr |-> 0, maghrib |-> 0, isha |-> 0]

\* Parameters::new
ParametersNew(fajr_angle, isha_angle) ==
  [method |-> "Other", fajr_angle |-> fajr_angle, maghrib_angle |-> 0,
   isha_angle |-> isha_angle, isha_interval |-> 0, madhab |-> "Shafi",
   high_latitude_rule |-> "MiddleOfTheNight", adjustments |-> NoAdjustment,
   method_adjustments |-> NoAdjustment, rounding |-> "Nearest", shafaq |-> "General"]

\* Method::parameters for the presets of the model
MethodParameters(method) ==
  CASE method = "NorthAmerica" ->
         [ParametersNew(150, 150) EXCEPT !.method = method,
                                         !.method_adjustments.dhuhr = 1]
    [] method = "MoonsightingCommittee" ->
         [ParametersNew(180, 180) EXCEPT !.method = method,
                                         !.method_adjustments.dhuhr = 5,
                                         !.method_adjustments.maghrib = 3]
    [] method = "UmmAlQura" ->
         [ParametersNew(185, 0) EXCEPT !.method = method, !.isha_interval = 90]

\* Madhab::shadow
shadow(madhab) == IF madhab = "Shafi" THEN 1 ELSE 2

\* Parameters::night_portions as fractions <<numerator, denominator>>
night_portions(p) ==
  CASE p.high_latitude_rule = "MiddleOfTheNight" -> <<<<1, 2>>, <<1, 2>>>>
    [] p.high_latitude_rule = "SeventhOfTheNight" -> <<<<1, 7>>, <<1, 7>>>>
    [] p.high_latitude_rule = "TwilightAngle" ->
         <<<<p.fajr_angle, 600>>, <<p.isha_angle, 600>>>>

\* time_adjustments without the adjustments of the method
time_adjustments_user_only(p, prayer) ==
  CASE prayer = "Fajr" -> p.adjustments.fajr
    [] prayer = "Sunrise" -> p.adjustments.sunrise
    [] prayer = "Dhuhr" -> p.adjustments.dhuhr
    [] prayer = "Asr" -> p.adjustments.asr
    [] prayer = "Maghrib" -> p.adjustments.maghrib
    [] prayer = "Isha" -> p.adjustments.isha
    [] OTHER -> 0

\* Parameters::time_adjustments
time_adjustments(p, prayer) ==
  CASE prayer = "Fajr" -> p.adjustments.fajr + p.method_adjustments.fajr
    [] prayer = "Sunrise" -> p.adjustments.sunrise + p.method_adjustments.sunrise
    [] prayer = "Dhuhr" -> p.adjustments.dhuhr + p.method_adjustments.dhuhr
    [] prayer = "Asr" -> p.adjustments.asr + p.method_adjustments.asr
    [] prayer = "Maghrib" -> p.adjustments.maghrib + p.method_adjustments.maghrib
    [] prayer = "Isha" -> p.adjustments.isha + p.method_adjustments.isha
    [] OTHER -> 0

-----------------------------------------------------------------------------
(* schedule.rs: the calculate_* functions.  Those that unwrap a             *)
(* time_for_solar_angle return <<>> where the code panics.                  *)

\* signed_duration_since(..).num_seconds()
calculate_night(solar_time_tomorrow, solar_time) ==
  solar_time_tomorrow.sunrise.t - solar_time.sunset.t

calculate_maghrib(solar_time, p) ==
  rounded_minute(adjust_time(solar_time.sunset, time_adjustments(p, "Maghrib")), p.rounding)

\* adjustment and rounding of a prayer time that may be absent
adjusted_and_rounded(t, p, prayer) ==
  IF t = <<>> THEN <<>>
  ELSE <<rounded_minute(adjust_time(t[1], time_adjustments(p, prayer)), p.rounding)>>

calculate_asr(solar_time, p) ==
  adjusted_and_rounded(afternoon(solar_time, shadow(p.madhab)), p, "Asr")

calculate_dhuhr(solar_time, p) ==
  rounded_minute(adjust_time(solar_time.transit, time_adjustments(p, "Dhuhr")), p.rounding)

calculate_sunrise(solar_time, p) ==
  rounded_minute(adjust_time(solar_time.sunrise, time_adjustments(p, "Sunrise")), p.rounding)

\* portion * night as i64, for the portion num/den
NightFraction(portion, night) == TruncDiv(portion[1] * night, portion[2])

\* is_special_case without the test of the latitude
is_special_case_everywhere(p, c) == p.method = "MoonsightingCommittee"

\* calculate_fajr: the special case of the Moonsighting Committee above
\* latitude 55
is_special_case(p, c) == p.method = "MoonsightingCommittee" /\ c.latitude >= 550000

\* calculate_fajr: the time before the safe bound is applied
fajr_before_bound(p, solar_time, night, c) ==
  IF is_special_case(p, c)
  THEN <<[solar_time.sunrise EXCEPT !.t = @ - TruncDiv(night, 7)]>>
  ELSE time_for_solar_angle(solar_time, [kind |-> "below", v |-> p.fajr_angle], FALSE)

\* calculate_fajr: safe_fajr
safe_fajr(p, solar_time, night, c, prayer_date) ==
  IF p.method = "MoonsightingCommittee"
  THEN season_adjusted_morning_twilight(c, Ordinal(prayer_date), Year(prayer_date),
                                        solar_time.sunrise)
  ELSE [solar_time.sunrise EXCEPT
          !.t = @ + (-NightFraction(night_portions(p)[1], night))]

\* bounded_fajr with the comparison turned round: the earlier of the two
bounded_fajr_earlier(fajr, safe) ==
  IF fajr = <<>> THEN <<>>
  ELSE IF fajr[1].t > safe.t THEN <<safe>> ELSE fajr

\* calculate_fajr: the later of the time and its safe bound
bounded_fajr(fajr, safe) ==
  IF fajr = <<>> THEN <<>>
  ELSE IF fajr[1].t < safe.t THEN <<safe>> ELSE fajr

calculate_fajr(p, solar_time, night, c, prayer_date) ==
  adjusted_and_rounded(bounded_fajr(fajr_before_bound(p, solar_time, night, c),
                                    safe_fajr(p, solar_time, night, c, prayer_date)),
                       p, "Fajr")

\* calculate_isha: safe_isha
safe_isha(p, solar_time, night, c, prayer_date) ==
  IF p.method = "MoonsightingCommittee"
  THEN season_adjusted_evening_twilight(c, Ordinal(prayer_date), Year(prayer_date),
                                        solar_time.sunset, p.shafaq)
  ELSE [solar_time.sunset EXCEPT !.t = @ + NightFraction(night_portions(p)[2], night)]

\* calculate_isha: the time before the safe bound is applied
isha_before_bound(p, solar_time, night, c) ==
  IF is_special_case(p, c)
  THEN <<[solar_time.sunset EXCEPT !.t = @ + TruncDiv(night, 7)]>>
  ELSE time_for_solar_angle(solar_time, [kind |-> "below", v |-> p.isha_angle], TRUE)

\* bounded_isha with the comparison turned round: the later of the two
bounded_isha_later(isha, safe) ==
  IF isha = <<>> THEN <<>>
  ELSE IF isha[1].t < safe.t THEN <<safe>> ELSE isha

\* calculate_isha: the earlier of the time and its safe bound
bounded_isha(isha, safe) ==
  IF isha = <<>> THEN <<>>
  ELSE IF isha[1].t > safe.t THEN <<safe>> ELSE isha

\* calculate_isha with the interval added as seconds instead of minutes
calculate_isha_seconds(p, solar_time, night, c, prayer_date) ==
  adjusted_and_rounded(
    IF p.isha_interval > 0
    THEN <<[solar_time.sunset EXCEPT !.t = @ + p.isha_interval]>>
    ELSE bounded_isha(isha_before_bound(p, solar_time, night, c),
                      safe_isha(p, solar_time, night, c, prayer_date)),
    p, "Isha")

calculate_isha(p, solar_time, night, c, prayer_date) ==
  adjusted_and_rounded(
    IF p.isha_interval > 0
    THEN <<[solar_time.sunset EXCEPT !.t = @ + p.isha_interval * 60]>>
    ELSE bounded_isha(isha_before_bound(p, solar_time, night, c),
                      safe_isha(p, solar_time, night, c, prayer_date)),
    p, "Isha")

\* calculate_qiyam: the middle and the last third of the night that lasts
\* night_duration seconds from maghrib
night_thirds(current_maghrib, p, tomorrow_fajr, night_duration) ==
  <<rounded_minute([current_maghrib EXCEPT !.t = @ + TruncDiv(night_duration, 2)],
                   p.rounding),
    rounded_minute([current_maghrib EXCEPT !.t = @ + TruncDiv(night_duration * 2, 3)],
                   p.rounding),
    tomorrow_fajr>>

\* calculate_qiyam once tomorrow_fajr is computed
qiyam_from_fajr(current_maghrib, p, tomorrow_fajr) ==
  IF tomorrow_fajr = <<>> THEN <<>>
  ELSE night_thirds(current_maghrib, p, tomorrow_fajr[1],
                    tomorrow_fajr[1].t - current_maghrib.t)

\* calculate_qiyam once the solar time of the next day is computed
qiyam_from_solar(current_maghrib, p, solar_time, solar_time_tomorrow, c, prayer_date) ==
  qiyam_from_fajr(current_maghrib, p,
                  calculate_fajr(p, solar_time,
                                 solar_time_tomorrow.sunrise.t - solar_time.sunset.t,
                                 c, prayer_date))

\* calculate_qiyam: <<middle_of_night, last_third_of_night, tomorrow_fajr>>, or
\* <<>> where SolarTime::new or calculate_fajr panics
calculate_qiyam(current_maghrib, p, solar_time, c, prayer_date) ==
  IF SolarTimePanics(tomorrow(prayer_date), c) THEN <<>>
  ELSE qiyam_from_solar(current_maghrib, p, solar_time,
                        SolarTime(tomorrow(prayer_date), c), c, prayer_date)

\* Times::new: the struct, once every instant is computed
times_of(tz, fajr, sunrise, dhuhr, asr, maghrib, isha, q, qy) ==
  IF fajr = <<>> \/ asr = <<>> \/ isha = <<>> \/ q = <<>> \/ qy = <<>>
  THEN <<>>
  ELSE <<[tz |-> tz,
          midnight_yesterday |-> qy[1].t, qiyam_yesterday |-> qy[2].t,
          fajr |-> fajr[1].t, sunrise |-> sunrise.t, dhuhr |-> dhuhr.t,
          asr |-> asr[1].t, maghrib |-> maghrib.t, isha |-> isha[1].t,
          midnight |-> q[1].t, qiyam |-> q[2].t, fajr_tomorrow |-> q[3].t]>>

\* times_from_solar with the coming night computed from the solar time and
\* the date of today instead of tomorrow's
times_from_solar_same_day(d, c, p, solar_time_yesterday, solar_time, solar_time_tomorrow, night) ==
  times_of(d.tz,
           calculate_fajr(p, solar_time, night, c, d),
           calculate_sunrise(solar_time, p),
           calculate_dhuhr(solar_time, p),
           calculate_asr(solar_time, p),
           calculate_maghrib(solar_time, p),
           calculate_isha(p, solar_time, night, c, d),
           calculate_qiyam(calculate_maghrib(solar_time, p), p, solar_time, c, d),
           calculate_qiyam(calculate_maghrib(solar_time_yesterday, p), p, solar_time, c, d))

\* Times::new: the instants, once the three solar times are computed
times_from_solar(d, c, p, solar_time_yesterday, solar_time, solar_time_tomorrow, night) ==
  times_of(d.tz,
           calculate_fajr(p, solar_time, night, c, d),
           calculate_sunrise(solar_time, p),
           calculate_dhuhr(solar_time, p),
           calculate_asr(solar_time, p),
           calculate_maghrib(solar_time, p),
           calculate_isha(p, solar_time, night, c, d),
           calculate_qiyam(calculate_maghrib(solar_time, p), p, solar_time_tomorrow, c,
                           tomorrow(d)),
           calculate_qiyam(calculate_maghrib(solar_time_yesterday, p), p, solar_time, c, d))

\* Times::new: <<>> where the construction panics, else <<Times>>
TimesNew(d, c, p) ==
  IF SolarTimePanics(yesterday(d), c) \/ SolarTimePanics(d, c)
       \/ SolarTimePanics(tomorrow(d), c)
  THEN <<>>
  ELSE times_from_solar(d, c, p, SolarTime(yesterday(d), c), SolarTime(d, c),
                        SolarTime(tomorrow(d), c),
                        calculate_night(SolarTime(tomorrow(d), c), SolarTime(d, c)))
-----------------------------------------------------------------------------
(* schedule.rs: the queries of Times.  An event with its instant is the    *)
(* record [event, time].                                                    *)

\* a.signed_duration_since(b).num_minutes()
num_minutes(a, b) == TruncDiv(a - b, 60)

\* a.signed_duration_since(b).num_hours()
num_hours(a, b) == TruncDiv(a - b, 3600)

\* Reached with the comparison made strict: a boundary is reached only after it
ReachedStrictly(boundary, t) == boundary - t < 0

\* boundary.signed_duration_since(time).num_seconds() <= 0
Reached(boundary, t) == boundary - t <= 0

\* InSunsetWindow with the window laid after maghrib instead of before it
InSunsetWindowAfter(T, t) == num_minutes(t, T.maghrib) \in 0..20

\* (0..=20).contains(maghrib - time in minutes)
InSunsetWindow(T, t) == num_minutes(T.maghrib, t) \in 0..20

\* PastSunriseWindow with the comparison made strict
PastSunriseWindowStrict(T, t) == num_minutes(T.sunrise, t) < -20

\* sunrise - time in minutes <= -20
PastSunriseWindow(T, t) == num_minutes(T.sunrise, t) <= -20

\* (-20..=0).contains(sunrise - time in minutes)
InSunriseWindow(T, t) == num_minutes(T.sunrise, t) \in -20..0

\* current with the test of asr made before the test of the sunset window
current_asr_first(T, t) ==
  IF Reached(T.fajr_tomorrow, t) THEN [event |-> "Fajr", time |-> T.fajr_tomorrow]
  ELSE IF Reached(T.qiyam, t) THEN [event |-> "Qiyam", time |-> T.qiyam]
  ELSE IF Reached(T.midnight, t) THEN [event |-> "AfterMidnight", time |-> T.midnight]
  ELSE IF Reached(T.isha, t) THEN [event |-> "Isha", time |-> T.isha]
  ELSE IF Reached(T.maghrib, t) THEN [event |-> "Maghrib", time |-> T.maghrib]
  ELSE IF Reached(T.asr, t) THEN [event |-> "Asr", time |-> T.asr]
  ELSE IF InSunsetWindow(T, t) THEN [event |-> "DuringSunset", time |-> T.asr]
  ELSE IF Reached(T.dhuhr, t) THEN [event |-> "Dhuhr", time |-> T.dhuhr]
  ELSE IF PastSunriseWindow(T, t) THEN [event |-> "Sunrise", time |-> T.sunrise]
  ELSE IF InSunriseWindow(T, t) THEN [event |-> "DuringSunrise", time |-> T.sunrise]
  ELSE IF Reached(T.fajr, t) THEN [event |-> "Fajr", time |-> T.fajr]
  ELSE IF Reached(T.qiyam_yesterday, t) THEN [event |-> "Qiyam", time |-> T.qiyam_yesterday]
  ELSE [event |-> "AfterMidnight", time |-> T.midnight_yesterday]

\* Times::current
current(T, t) ==
  IF Reached(T.fajr_tomorrow, t) THEN [event |-> "Fajr", time |-> T.fajr_tomorrow]
  ELSE IF Reached(T.qiyam, t) THEN [event |-> "Qiyam", time |-> T.qiyam]
  ELSE IF Reached(T.midnight, t) THEN [event |-> "AfterMidnight", time |-> T.midnight]
  ELSE IF Reached(T.isha, t) THEN [event |-> "Isha", time |-> T.isha]
  ELSE IF Reached(T.maghrib, t) THEN [event |-> "Maghrib", time |-> T.maghrib]
  ELSE IF InSunsetWindow(T, t) THEN [event |-> "DuringSunset", time |-> T.asr]
  ELSE IF Reached(T.asr, t) THEN [event |-> "Asr", time |-> T.asr]
  ELSE IF Reached(T.dhuhr, t) THEN [event |-> "Dhuhr", time |-> T.dhuhr]
  ELSE IF PastSunriseWindow(T, t) THEN [event |-> "Sunrise", time |-> T.sunrise]
  ELSE IF InSunriseWindow(T, t) THEN [event |-> "DuringSunrise", time |-> T.sunrise]
  ELSE IF Reached(T.fajr, t) THEN [event |-> "Fajr", time |-> T.fajr]
  ELSE IF Reached(T.qiyam_yesterday, t) THEN [event |-> "Qiyam", time |-> T.qiyam_yesterday]
  ELSE [event |-> "AfterMidnight", time |-> T.midnight_yesterday]

\* time.date_naive() == other.date_naive(), both in the zone of the schedule
SameDate(T, t, other) ==
  date_naive([t |-> t, tz |-> T.tz]) = date_naive([t |-> other, tz |-> T.tz])

\* (-20..0).contains(sunrise - time in minutes), the test of next() after Sunrise
NextInSunriseWindow(T, t) == num_minutes(T.sunrise, t) \in -20..-1

\* Isha arm of next(): the midnight the forbidden period starts at
MidnightAfterIsha(T, t) == IF SameDate(T, t, T.isha) THEN T.midnight ELSE T.midnight_yesterday

\* AfterMidnight arm of next(): the qiyam that follows
QiyamAfterMidnight(T, t) == IF SameDate(T, t, T.midnight) THEN T.qiyam ELSE T.qiyam_yesterday

\* Times::next
next(T, t) ==
  LET e == current(T, t).event
  IN CASE e = "Fajr" -> [event |-> "Sunrise", time |-> T.sunrise]
       [] e = "Sunrise" ->
            IF NextInSunriseWindow(T, t)
            THEN [event |-> "DuringSunrise", time |-> T.dhuhr]
            ELSE [event |-> "Dhuhr", time |-> T.dhuhr]
       [] e = "DuringSunrise" -> [event |-> "Dhuhr", time |-> T.dhuhr]
       [] e = "Dhuhr" -> [event |-> "Asr", time |-> T.asr]
       [] e = "Asr" ->
            IF InSunsetWindow(T, t)
            THEN [event |-> "DuringSunset", time |-> T.maghrib]
            ELSE [event |-> "Maghrib", time |-> T.maghrib]
       [] e = "DuringSunset" -> [event |-> "Maghrib", time |-> T.maghrib]
       [] e = "Maghrib" -> [event |-> "Isha", time |-> T.isha]
       [] e = "Isha" -> [event |-> "AfterMidnight", time |-> MidnightAfterIsha(T, t)]
       [] e = "AfterMidnight" -> [event |-> "Qiyam", time |-> QiyamAfterMidnight(T, t)]
       [] e = "Qiyam" -> [event |-> "Fajr", time |-> T.fajr]

\* the instant next() is asked about in time_remaining: the start of the
\* current event
RemainingFrom(T, t) == current(T, t).time

\* Times::time_remaining
time_remaining(T, t) ==
  LET next_time == next(T, RemainingFrom(T, t)).time
      hours == num_hours(next_time, t)
      minutes == TruncRem(num_minutes(next_time, t), 60)
  IN <<hours, minutes>>

-----------------------------------------------------------------------------
(* Inputs of the model.                                                     *)

\* the dates given to with_date: 2015-07-12 in UTC and at UTC-4, 2016-01-01
Dates == {FromYO(2015, 193, 0, 0), FromYO(2015, 193, 0, -14400), FromYO(2016, 1, 0, 0)}

Places == {Raleigh, London, Oslo, Tromso, Lat55}

NorthAmericaHanafi == [MethodParameters("NorthAmerica") EXCEPT !.madhab = "Hanafi"]

\* adjustments that move Asr, Maghrib and Isha to the minutes after Dhuhr
EarlyEvening == [NoAdjustment EXCEPT !.asr = -295, !.maghrib = -420, !.isha = -420]

\* adjustments that put Fajr to Maghrib within ten minutes
ShortDay == [fajr |-> 516, sunrise |-> 431, dhuhr |-> 0, asr |-> -299,
             maghrib |-> -427, isha |-> -420]

\* adjustment that moves Isha 100 minutes earlier, before Maghrib where the
\* twilight is shorter than that
EarlyIsha == [NoAdjustment EXCEPT !.isha = -100]

\* Fajr on its night-portion bound (a seventh of the night before sunrise, kept
\* to the second), moved to the last minute before sunrise
LateFajr ==
  [NorthAmericaHanafi EXCEPT !.rounding = "None",
                             !.high_latitude_rule = "SeventhOfTheNight",
                             !.adjustments = [NoAdjustment EXCEPT !.fajr = 82]]

\* Isha on its night-portion bound (a seventh of the night after sunset), with
\* the policy Up
SeventhUp ==
  [NorthAmericaHanafi EXCEPT !.rounding = "Up",
                             !.high_latitude_rule = "SeventhOfTheNight"]

ParamSet ==
  { NorthAmericaHanafi,
    MethodParameters("MoonsightingCommittee"),
    MethodParameters("UmmAlQura"),
    [NorthAmericaHanafi EXCEPT !.rounding = "Up"],
    [NorthAmericaHanafi EXCEPT !.rounding = "None"],
    [NorthAmericaHanafi EXCEPT !.isha_interval = -30],
    [NorthAmericaHanafi EXCEPT !.adjustments = EarlyEvening],
    [NorthAmericaHanafi EXCEPT !.adjustments = ShortDay],
    LateFajr,
    SeventhUp,
    [NorthAmericaHanafi EXCEPT !.isha_interval = 90],
    [NorthAmericaHanafi EXCEPT !.maghrib_angle = 45],
    [MethodParameters("MoonsightingCommittee") EXCEPT !.shafaq = "Ahmer"],
    [NorthAmericaHanafi EXCEPT !.adjustments = EarlyIsha] }

\* seconds around each offset that the queries probe
ProbeWidth == 1

\* the instants of a schedule
Boundaries(T) ==
  {T.midnight_yesterday, T.qiyam_yesterday, T.fajr, T.sunrise, T.dhuhr, T.asr,
   T.maghrib, T.isha, T.midnight, T.qiyam, T.fajr_tomorrow}

\* query instants: every instant of the schedule, moved by 0, 1, 20 or 21
\* minutes either way, give or take ProbeWidth seconds
ProbeTimes(T) ==
  { b + s * (m * 60) + w : b \in Boundaries(T), s \in {-1, 1}, m \in {0, 1, 20, 21},
                           w \in -ProbeWidth..ProbeWidth }

\* the schedules Times::new returns for the inputs
BuiltTimes == { TimesNew(x[1], x[2], x[3])[1] :
                  x \in { y \in Dates \X Places \X ParamSet : TimesNew(y[1], y[2], y[3]) # <<>> } }

-----------------------------------------------------------------------------
(* The builder (Schedule) and its build().                                  *)

Init ==
  /\ schedDate = <<>>
  /\ schedCoords = <<>>
  /\ schedParams = <<>>
  /\ ret = [kind |-> "None"]
  /\ times = <<>>
  /\ now = 0
  /\ expected = <<>>
  /\ remaining = <<>>
  /\ argHours = <<>>
  /\ argDate = <<>>
  /\ argAngle = <<>>
  /\ argLatitude = <<>>

\* Schedule::build as a function of the three fields
build(d, c, p) ==
  IF d # <<>> /\ c # <<>> /\ p # <<>>
  THEN IF TimesNew(d[1], c[1], p[1]) = <<>>
       THEN [kind |-> "Panic"]
       ELSE [kind |-> "Ok", times |-> TimesNew(d[1], c[1], p[1])[1]]
  ELSE [kind |-> "Err"]

with_date(d) ==
  /\ schedDate' = <<d>>
  /\ ret' = [kind |-> "Self"]
  /\ UNCHANGED <<schedCoords, schedParams, times, now, expected, remaining, argHours, argDate, argAngle, argLatitude>>

with_coordinates(location) ==
  /\ schedCoords' = <<location>>
  /\ ret' = [kind |-> "Self"]
  /\ UNCHANGED <<schedDate, schedParams, times, now, expected, remaining, argHours, argDate, argAngle, argLatitude>>

with_parameters(p) ==
  /\ schedParams' = <<p>>
  /\ ret' = [kind |-> "Self"]
  /\ UNCHANGED <<schedDate, schedCoords, times, now, expected, remaining, argHours, argDate, argAngle, argLatitude>>

Build ==
  /\ ret' = build(schedDate, schedCoords, schedParams)
  /\ UNCHANGED <<schedDate, schedCoords, schedParams, times, now, expected, remaining, argHours, argDate, argAngle, argLatitude>>

WithDate == \E d \in Dates : with_date(d)

WithCoordinates == \E c \in Places : with_coordinates(c)

WithParameters == \E p \in ParamSet : with_parameters(p)

Next == WithDate \/ WithCoordinates \/ WithParameters \/ Build

Spec == Init /\ [][Next]_vars

-----------------------------------------------------------------------------
(***************************************************************************)
(* The queries on a built schedule.  The schedule and the instant of the   *)
(* query are the inputs; expected() and time_remaining() are applied to    *)
(* them.                                                                   *)
(***************************************************************************)

InitQuery ==
  /\ schedDate = <<>>
  /\ schedCoords = <<>>
  /\ schedParams = <<>>
  /\ ret = [kind |-> "None"]
  /\ times \in BuiltTimes
  /\ now \in ProbeTimes(times)
  /\ expected = <<>>
  /\ remaining = <<>>
  /\ argHours = <<>>
  /\ argDate = <<>>
  /\ argAngle = <<>>
  /\ argLatitude = <<>>

\* Times::expected
Expected ==
  /\ expected' = <<[current |-> current(times, now), next |-> next(times, now)]>>
  /\ UNCHANGED <<schedDate, schedCoords, schedParams, ret, times, now, remaining, argHours, argDate, argAngle, argLatitude>>

\* Times::time_remaining
TimeRemaining ==
  /\ remaining' = <<time_remaining(times, now)>>
  /\ UNCHANGED <<schedDate, schedCoords, schedParams, ret, times, now, expected, argHours, argDate, argAngle, argLatitude>>

NextQuery == Expected \/ TimeRemaining

SpecQuery == InitQuery /\ [][NextQuery]_vars


-----------------------------------------------------------------------------
(***************************************************************************)
(* The conversions to wall-clock instants on their own: an hour value and  *)
(* a DateTime are the inputs; SolarTime::setting_hour and                  *)
(* Stride::rounded_minute are applied to them.                             *)
(***************************************************************************)

Roundings == {"Nearest", "Up", "None"}

\* the hour values given to setting_hour, in seconds: NaN (<<>>) and every
\* combination of the listed hours, minutes and seconds
HourValues ==
  {<<>>} \cup { <<h * 3600 + m * 60 + s>> : h \in {-25, -24, -1, 0, 12, 23, 24, 47, 48},
                                            m \in {0, 29, 59}, s \in {0, 29, 30, 59} }

\* the DateTime values: days at the turn of a year and of February, times of
\* day on and off the whole minute, in UTC and at UTC-4
ClockDates ==
  { FromYO(yo[1], yo[2], s, tz) :
      yo \in {<<2015, 193>>, <<2015, 365>>, <<2016, 1>>, <<2016, 60>>, <<2016, 366>>},
      s \in {0, 21560, 21600, 86370}, tz \in {0, -14400} }

InitClock ==
  /\ schedDate = <<>>
  /\ schedCoords = <<>>
  /\ schedParams = <<>>
  /\ ret = [kind |-> "None"]
  /\ times = <<>>
  /\ now = 0
  /\ expected = <<>>
  /\ remaining = <<>>
  /\ argHours \in HourValues
  /\ argDate \in ClockDates
  /\ argAngle = <<>>
  /\ argLatitude = <<>>

\* SolarTime::setting_hour(argHours, &argDate)
SettingHour ==
  /\ ret' = [kind |-> "Option", value |-> setting_hour(argHours, argDate)]
  /\ UNCHANGED <<schedDate, schedCoords, schedParams, times, now, expected, remaining,
                 argHours, argDate, argAngle, argLatitude>>

\* argDate.rounded_minute(rounding)
RoundedMinute ==
  \E rounding \in Roundings :
    /\ ret' = [kind |-> "DateTime", rounding |-> rounding,
               value |-> rounded_minute(argDate, rounding)]
    /\ UNCHANGED <<schedDate, schedCoords, schedParams, times, now, expected, remaining,
                   argHours, argDate, argAngle, argLatitude>>

NextClock == SettingHour \/ RoundedMinute

SpecClock == InitClock /\ [][NextClock]_vars
-----------------------------------------------------------------------------
(* The calendar functions on their own: Stride::tomorrow, Stride::yesterday  *)
(* and Stride::julian_day of a DateTime, and ops::days_since_solstice of its *)
(* day of the year, its year and a latitude.                                *)

\* days of the year at the ends of the months around February, 13 October
\* and the end of the year
MonthEnds == {1, 31, 32, 59, 60, 61, 287, 365, 366}

\* every day of 2015 and of the leap year 2016, and the days of MonthEnds of
\* 1992 and 2000
CalendarDays ==
  { <<y, o>> : y \in {2015, 2016}, o \in 1..366 } \cup
  { <<y, o>> : y \in {1992, 2000}, o \in MonthEnds }

\* the UTC date-times of these days at midnight and at 12:00:30
CalendarDates ==
  { FromYO(yo[1], yo[2], s, 0) :
      yo \in { x \in CalendarDays : x[2] <= DaysInYear(x[1]) }, s \in {0, 43230} }

\* days of the century years 1900 and 2100, which are beyond the instants a
\* DateTime of the model can hold
CenturyDays == { <<y, o>> : y \in {1900, 2100}, o \in {1, 59, 60, 365} }

\* southern, equatorial and northern latitudes, in 1/10000 degree
Latitudes == {-338688, 0, 357750}

InitCalendar ==
  /\ schedDate = <<>>
  /\ schedCoords = <<>>
  /\ schedParams = <<>>
  /\ ret = [kind |-> "None"]
  /\ times = <<>>
  /\ now = 0
  /\ expected = <<>>
  /\ remaining = <<>>
  /\ argHours = <<>>
  /\ argDate \in CalendarDates
  /\ argAngle = <<>>
  /\ argLatitude \in Latitudes

\* argDate.tomorrow()
Tomorrow ==
  /\ ret' = [kind |-> "Tomorrow", value |-> tomorrow(argDate)]
  /\ UNCHANGED <<schedDate, schedCoords, schedParams, times, now, expected, remaining,
                 argHours, argDate, argAngle, argLatitude>>

\* argDate.yesterday()
Yesterday ==
  /\ ret' = [kind |-> "Yesterday", value |-> yesterday(argDate)]
  /\ UNCHANGED <<schedDate, schedCoords, schedParams, times, now, expected, remaining,
                 argHours, argDate, argAngle, argLatitude>>

\* argDate.julian_day()
JulianDay ==
  /\ ret' = [kind |-> "JulianDay", value |-> stride_julian_day(argDate)]
  /\ UNCHANGED <<schedDate, schedCoords, schedParams, times, now, expected, remaining,
                 argHours, argDate, argAngle, argLatitude>>

\* ops::julian_day(year, month, day, 0.0) of day o of the year y
JulianDayOf ==
  \E yo \in CenturyDays :
    /\ ret' = [kind |-> "JulianDayOf", year |-> yo[1], ordinal |-> yo[2],
               value |-> julian_day(yo[1], MonthFrom(yo[1], yo[2], 1),
                                    DayFrom(yo[1], yo[2], 1), 0)]
    /\ UNCHANGED <<schedDate, schedCoords, schedParams, times, now, expected, remaining,
                   argHours, argDate, argAngle, argLatitude>>

\* days_since_solstice(argDate.ordinal(), argDate.year() as u32, argLatitude)
DaysSinceSolstice ==
  /\ ret' = [kind |-> "DaysSinceSolstice",
             value |-> days_since_solstice(Ordinal(argDate), Year(argDate), argLatitude)]
  /\ UNCHANGED <<schedDate, schedCoords, schedParams, times, now, expected, remaining,
                 argHours, argDate, argAngle, argLatitude>>

NextCalendar == Tomorrow \/ Yesterday \/ JulianDay \/ JulianDayOf \/ DaysSinceSolstice

SpecCalendar == InitCalendar /\ [][NextCalendar]_vars

-----------------------------------------------------------------------------
(* The Angle functions on their own: Angle::unwound and                      *)
(* Angle::quadrant_shifted of an angle.                                      *)

\* numerators of the first family: up to four turns in whole degrees, one
\* turn in quarter degrees
AngleNumerators == -1442 .. 1442

\* the angles: whole and quarter degrees, and the values 1 / 2^s and
\* -1 / 2^s for s = 45 and s = 60
Angles ==
  { <<k, s>> : k \in AngleNumerators, s \in {0, ExactScale} } \cup
  { <<k, s>> : k \in {-1, 1}, s \in {TinyScale, 60} }

InitAngle ==
  /\ schedDate = <<>>
  /\ schedCoords = <<>>
  /\ schedParams = <<>>
  /\ ret = [kind |-> "None"]
  /\ times = <<>>
  /\ now = 0
  /\ expected = <<>>
  /\ remaining = <<>>
  /\ argHours = <<>>
  /\ argDate = <<>>
  /\ argAngle \in Angles
  /\ argLatitude = <<>>

\* Angle::new(argAngle).unwound()
Unwound ==
  /\ ret' = [kind |-> "Unwound", value |-> unwound(argAngle)]
  /\ UNCHANGED <<schedDate, schedCoords, schedParams, times, now, expected, remaining,
                 argHours, argDate, argAngle, argLatitude>>

\* Angle::new(argAngle).quadrant_shifted()
QuadrantShifted ==
  /\ ret' = [kind |-> "QuadrantShifted", value |-> quadrant_shifted(argAngle)]
  /\ UNCHANGED <<schedDate, schedCoords, schedParams, times, now, expected, remaining,
                 argHours, argDate, argAngle, argLatitude>>

NextAngle == Unwound \/ QuadrantShifted

SpecAngle == InitAngle /\ [][NextAngle]_vars

-----------------------------------------------------------------------------
(***************************************************************************)
(* Properties.  Those on a schedule are stated on the result of build()    *)
(* (ret); those on the queries on the results of expected() and            *)
(* time_remaining() for the schedule `times` and the instant `now`.        *)
(***************************************************************************)

\* the instants of a schedule in strictly increasing order
Ordered(T) ==
  /\ T.fajr < T.sunrise
  /\ T.sunrise < T.dhuhr
  /\ T.dhuhr < T.asr
  /\ T.asr < T.maghrib
  /\ T.maghrib < T.isha
  /\ T.isha < T.midnight
  /\ T.midnight < T.qiyam
  /\ T.qiyam < T.fajr_tomorrow
  /\ T.midnight_yesterday < T.qiyam_yesterday
  /\ T.qiyam_yesterday < T.fajr

\* t is earlier than every boundary of the coming night
BeforeNight(T, t) == t < T.isha /\ t < T.midnight /\ t < T.qiyam /\ t < T.fajr_tomorrow

\* t is more than 21 minutes before maghrib
ClearOfSunset(T, t) == T.maghrib - t > 21 * 60

\* build() has returned for the builder as it is now
Built == ret.kind \in {"Ok", "Err", "Panic"}

\* all three fields of the builder are set
AllSet == schedDate # <<>> /\ schedCoords # <<>> /\ schedParams # <<>>

\* C1: every schedule that build() returns is strictly ordered:
\* fajr < sunrise < dhuhr < asr < maghrib < isha < midnight < qiyam <
\* fajr_tomorrow, and midnight_yesterday < qiyam_yesterday < fajr.
C1_StrictlyOrdered == ret.kind = "Ok" => Ordered(ret.times)

\* C2: in a strictly ordered schedule, an instant with fajr <= now < sunrise
\* has the current event Fajr, starting at fajr.
C2_FajrUntilSunrise ==
  (expected # <<>> /\ Ordered(times) /\ times.fajr <= now /\ now < times.sunrise)
    => expected[1].current = [event |-> "Fajr", time |-> times.fajr]

\* the place of an event of current() in the order of the day
Rank(T, e) ==
  CASE e.event = "AfterMidnight" -> IF e.time = T.midnight THEN 10 ELSE 0
    [] e.event = "Qiyam" -> IF e.time = T.qiyam THEN 11 ELSE 1
    [] e.event = "Fajr" -> IF e.time = T.fajr_tomorrow THEN 12 ELSE 2
    [] e.event = "DuringSunrise" -> 3
    [] e.event = "Sunrise" -> 4
    [] e.event = "Dhuhr" -> 5
    [] e.event = "Asr" -> 6
    [] e.event = "DuringSunset" -> 7
    [] e.event = "Maghrib" -> 8
    [] e.event = "Isha" -> 9

\* the event e of current(t) is the one of the latest boundary not after t,
\* from maghrib on and between dhuhr and asr
LatestFromDhuhr(T, t, e) ==
  /\ (T.maghrib <= t /\ t < T.isha) => e = "Maghrib"
  /\ (T.isha <= t /\ t < T.midnight) => e = "Isha"
  /\ (T.midnight <= t /\ t < T.qiyam) => e = "AfterMidnight"
  /\ (T.qiyam <= t /\ t < T.fajr_tomorrow) => e = "Qiyam"
  /\ t >= T.fajr_tomorrow => e = "Fajr"
  /\ (T.dhuhr <= t /\ t < T.asr /\ ClearOfSunset(T, t)) => e = "Dhuhr"

\* the same before fajr
LatestBeforeFajr(T, t, e) ==
  /\ (T.qiyam_yesterday <= t /\ t < T.fajr) => e = "Qiyam"
  /\ t < T.qiyam_yesterday => e = "AfterMidnight"

\* no later instant has a current event earlier in the day than the one
\* reported for now
NeverBackward ==
  \A u \in ProbeTimes(times) :
    u >= now => Rank(times, current(times, u)) >= Rank(times, expected[1].current)

\* C3 as stated: in a strictly ordered schedule current() reports the latest
\* boundary not after now in each of the listed intervals (between dhuhr and
\* asr only more than 21 minutes before maghrib), and never moves backward.
C3_LatestBoundary ==
  (expected # <<>> /\ Ordered(times))
    => /\ LatestFromDhuhr(times, now, expected[1].current.event)
       /\ LatestBeforeFajr(times, now, expected[1].current.event)
       /\ NeverBackward

\* the event e of current(t) for an instant t before fajr: the forbidden
\* windows come first, then the latest boundary not after t
BeforeFajrWithWindows(T, t, e) ==
  IF T.maghrib - t < 21 * 60 THEN e = "DuringSunset"
  ELSE IF T.sunrise - t < 60 THEN e = "DuringSunrise"
  ELSE LatestBeforeFajr(T, t, e)

\* C3 amended: before fajr, an instant less than 21 minutes before maghrib is
\* reported as DuringSunset and one less than a minute before sunrise as
\* DuringSunrise; only the other instants before fajr are reported as Qiyam
\* (from qiyam_yesterday) and AfterMidnight (before it).  The rest is as
\* stated.
C3_LatestBoundaryClearOfWindows ==
  (expected # <<>> /\ Ordered(times))
    => /\ LatestFromDhuhr(times, now, expected[1].current.event)
       /\ now < times.fajr => BeforeFajrWithWindows(times, now, expected[1].current.event)
       /\ NeverBackward

\* C3 witness: at the very instant of qiyam_yesterday of an ordered schedule,
\* clear of the windows of sunrise and sunset, the current event is Qiyam.
C3_Witness ==
  /\ expected # <<>>
  /\ Ordered(times)
  /\ now = times.qiyam_yesterday
  /\ ClearOfSunset(times, now) /\ times.sunrise - now >= 60
  /\ expected[1].current = [event |-> "Qiyam", time |-> times.qiyam_yesterday]

\* C4 as stated: an instant in the 20 minutes after maghrib has the current
\* event DuringSunset.
C4_SunsetWindowAfterMaghrib ==
  (expected # <<>> /\ times.maghrib < now /\ now < times.maghrib + 20 * 60)
    => expected[1].current.event = "DuringSunset"

\* C4 amended: an instant in the 20 minutes before maghrib, earlier than the
\* boundaries of the night, has the current event DuringSunset (starting at
\* asr) and not Asr.
C4_SunsetWindowBeforeMaghrib ==
  (expected # <<>> /\ BeforeNight(times, now)
     /\ times.maghrib - 20 * 60 < now /\ now < times.maghrib)
    => expected[1].current = [event |-> "DuringSunset", time |-> times.asr]

\* C4 witness: an instant after asr and within 20 minutes before maghrib is
\* reported as DuringSunset.
C4_Witness ==
  /\ expected # <<>>
  /\ BeforeNight(times, now)
  /\ times.asr <= now
  /\ times.maghrib - 20 * 60 < now /\ now < times.maghrib
  /\ expected[1].current.event = "DuringSunset"

\* the current event around sunrise: DuringSunrise for 20 minutes from
\* sunrise, Sunrise from then until dhuhr
SunriseThenWindow(T, t, e) ==
  /\ (T.sunrise <= t /\ t < T.sunrise + 20 * 60) => e = "DuringSunrise"
  /\ (T.sunrise + 20 * 60 <= t /\ t < T.dhuhr) => e = "Sunrise"

\* C5 as stated: in every schedule with sunrise + 20 min <= dhuhr, current()
\* is DuringSunrise in [sunrise, sunrise + 20 min) and Sunrise in
\* [sunrise + 20 min, dhuhr).
C5_SunriseWindow ==
  (expected # <<>> /\ times.sunrise + 20 * 60 <= times.dhuhr)
    => SunriseThenWindow(times, now, expected[1].current.event)

\* C5 amended: the same for the instants that are earlier than asr and the
\* boundaries of the night and more than 21 minutes before maghrib.
C5_SunriseWindowBeforeEvening ==
  (expected # <<>> /\ times.sunrise + 20 * 60 <= times.dhuhr
     /\ now < times.asr /\ BeforeNight(times, now) /\ ClearOfSunset(times, now))
    => SunriseThenWindow(times, now, expected[1].current.event)

\* C5 witness: exactly 20 minutes after sunrise the current event is Sunrise.
C5_Witness ==
  /\ expected # <<>>
  /\ times.sunrise + 20 * 60 <= times.dhuhr
  /\ now < times.asr /\ BeforeNight(times, now) /\ ClearOfSunset(times, now)
  /\ now = times.sunrise + 20 * 60
  /\ now < times.dhuhr
  /\ expected[1].current.event = "Sunrise"

\* the event that follows c in the transition table
Following(c) ==
  CASE c = "Fajr" -> "Sunrise"
    [] c \in {"Sunrise", "DuringSunrise"} -> "Dhuhr"
    [] c = "Dhuhr" -> "Asr"
    [] c \in {"Asr", "DuringSunset"} -> "Maghrib"
    [] c = "Maghrib" -> "Isha"
    [] c = "Isha" -> "AfterMidnight"
    [] c = "AfterMidnight" -> "Qiyam"
    [] c = "Qiyam" -> "Fajr"

\* C6: next() follows the transition table over the current event; after
\* Sunrise (Asr) it may name DuringSunrise (DuringSunset) instead, but only
\* for an instant inside the 20 minutes after sunrise (before maghrib).
C6_ForwardTransitions ==
  expected # <<>> =>
    LET c == expected[1].current.event
        n == expected[1].next.event
    IN \/ n = Following(c)
       \/ /\ c = "Sunrise"
          /\ n = "DuringSunrise"
          /\ times.sunrise <= now /\ now < times.sunrise + 20 * 60
       \/ /\ c = "Asr"
          /\ n = "DuringSunset"
          /\ times.maghrib - 20 * 60 <= now /\ now < times.maghrib

\* C7: time_remaining(now) is the whole hours, and the whole minutes modulo
\* 60, from now to the instant that next(now) reports.
C7_RemainingUntilNext ==
  (expected # <<>> /\ remaining # <<>>)
    => remaining[1] = <<num_hours(expected[1].next.time, now),
                        TruncRem(num_minutes(expected[1].next.time, now), 60)>>

\* C8: build() returns Err exactly when a field of the builder is unset and Ok
\* when all three are set, and leaves the builder as it was.
C8_BuildResult ==
  [][ret'.kind \in {"Ok", "Err", "Panic"}
       => /\ (ret'.kind = "Err") <=> ~AllSet
          /\ AllSet => ret'.kind = "Ok"
          /\ UNCHANGED <<schedDate, schedCoords, schedParams>>]_vars

\* C9: the construction of a schedule never panics.
C9_NoPanic == ret.kind # "Panic"

\* C10: build() with parameters whose isha_interval is negative returns an
\* error.
C10_NegativeIntervalRejected ==
  (Built /\ AllSet /\ schedParams[1].isha_interval < 0) => ret.kind = "Err"


\* the fields of the builder once all three are set
TheDate == schedDate[1]

TheCoords == schedCoords[1]

TheParams == schedParams[1]

\* the night of the day d at c: sunrise of the next day minus sunset, seconds
NightOf(d, c) == calculate_night(SolarTime(tomorrow(d), c), SolarTime(d, c))

\* the safe floor of Fajr for the day d at c under p, as an instant
SafeFloorOf(d, c, p) == safe_fajr(p, SolarTime(d, c), NightOf(d, c), c, d).t

SafeBoundOf(d, c, p) == safe_isha(p, SolarTime(d, c), NightOf(d, c), c, d).t

IshaByInterval(d, c, p) ==
  rounded_minute(
    [t |-> SolarTime(d, c).sunset.t + p.isha_interval * 60
             + (p.adjustments.isha + p.method_adjustments.isha) * 60,
     tz |-> d.tz],
    p.rounding).t

\* q has the interval, the Isha adjustment and the rounding policy of p
SameIntervalInputs(p, q) ==
  /\ q.isha_interval = p.isha_interval
  /\ time_adjustments(q, "Isha") = time_adjustments(p, "Isha")
  /\ q.rounding = p.rounding

\* the isha of the schedule built for d, c and p with the interval put to 0
IshaWithoutInterval(d, c, p) == TimesNew(d, c, [p EXCEPT !.isha_interval = 0])[1].isha

\* C13: with isha_interval > 0 the isha of a built schedule is sunset plus the
\* interval in minutes, shifted by the Isha adjustment and rounded, and every
\* other Parameters value with the same interval, adjustment and policy
\* (whatever its angles, method, high-latitude rule and shafaq) gives the same
\* isha; with isha_interval <= 0 the isha is the one of isha_interval 0.
C13_IshaByInterval ==
  (ret.kind = "Ok" /\ AllSet)
    => IF TheParams.isha_interval > 0
       THEN /\ ret.times.isha = IshaByInterval(TheDate, TheCoords, TheParams)
            /\ \A q \in ParamSet :
                 (SameIntervalInputs(TheParams, q)
                    /\ TimesNew(TheDate, TheCoords, q) # <<>>)
                   => TimesNew(TheDate, TheCoords, q)[1].isha = ret.times.isha
       ELSE ret.times.isha = IshaWithoutInterval(TheDate, TheCoords, TheParams)

\* C13 witness: a schedule built with the North America angles and
\* isha_interval 90: its isha is 90 minutes after maghrib, not the isha the
\* same parameters give without the interval.
C13_Witness ==
  /\ ret.kind = "Ok" /\ AllSet
  /\ TheParams.isha_interval = 90
  /\ TheParams.method = "NorthAmerica"
  /\ ret.times.isha = ret.times.maghrib + 90 * 60
  /\ ret.times.isha # IshaWithoutInterval(TheDate, TheCoords, TheParams)

\* r is the instant x rounded to the minute: a whole minute less than a
\* minute away from x
RoundedToTheMinute(r, x) == r % 60 = 0 /\ r - x < 60 /\ x - r < 60

\* midnight and qiyam are the half and the two thirds of the night from
\* maghrib to the next fajr, truncated to whole seconds and rounded to the
\* minute, and lie in order between the two
VigilFrom(maghrib, next_fajr, midnight, qiyam) ==
  /\ RoundedToTheMinute(midnight, maghrib + TruncDiv(next_fajr - maghrib, 2))
  /\ RoundedToTheMinute(qiyam, maghrib + TruncDiv((next_fajr - maghrib) * 2, 3))
  /\ next_fajr > maghrib
       => (maghrib <= midnight /\ midnight <= qiyam /\ qiyam <= next_fajr)

\* the maghrib of the day before d at c under p
MaghribYesterday(d, c, p) == calculate_maghrib(SolarTime(yesterday(d), c), p).t

\* C14: in a built schedule midnight = maghrib + (fajr_tomorrow - maghrib)/2
\* and qiyam = maghrib + (fajr_tomorrow - maghrib)*2/3, each truncated to whole
\* seconds and rounded to the minute, so that maghrib <= midnight <= qiyam <=
\* fajr_tomorrow whenever fajr_tomorrow > maghrib; the same holds for
\* midnight_yesterday and qiyam_yesterday with the maghrib of the day before
\* and fajr.
C14_NightVigil ==
  (ret.kind = "Ok" /\ AllSet)
    => /\ VigilFrom(ret.times.maghrib, ret.times.fajr_tomorrow,
                    ret.times.midnight, ret.times.qiyam)
       /\ VigilFrom(MaghribYesterday(TheDate, TheCoords, TheParams), ret.times.fajr,
                    ret.times.midnight_yesterday, ret.times.qiyam_yesterday)

\* q is p with another rounding policy
DiffersOnlyInRounding(p, q) == q # p /\ [q EXCEPT !.rounding = p.rounding] = p

\* the offsets of midnight and qiyam from maghrib in the schedule T
VigilOffsets(T) == <<T.midnight - T.maghrib, T.qiyam - T.maghrib>>

\* C15: midnight and qiyam are rounded to the nearest minute whatever the
\* configured policy: two Parameters values that differ only in their rounding
\* policy give schedules with the same offsets of midnight and qiyam from
\* maghrib.
C15_VigilRoundingFixed ==
  (ret.kind = "Ok" /\ AllSet)
    => \A q \in ParamSet :
         (DiffersOnlyInRounding(TheParams, q) /\ TimesNew(TheDate, TheCoords, q) # <<>>)
           => VigilOffsets(TimesNew(TheDate, TheCoords, q)[1]) = VigilOffsets(ret.times)

\* the raw solar instant x shifted by the two adjustments a and m (minutes)
\* and rounded by the policy of p
ShiftedAndRounded(x, a, m, p) ==
  rounded_minute([t |-> x.t + (a + m) * 60, tz |-> x.tz], p.rounding).t

\* q has the sunrise, dhuhr and maghrib adjustments and the policy of p
SameSolarInputs(p, q) ==
  /\ q.adjustments.sunrise + q.method_adjustments.sunrise
       = p.adjustments.sunrise + p.method_adjustments.sunrise
  /\ q.adjustments.dhuhr + q.method_adjustments.dhuhr
       = p.adjustments.dhuhr + p.method_adjustments.dhuhr
  /\ q.adjustments.maghrib + q.method_adjustments.maghrib
       = p.adjustments.maghrib + p.method_adjustments.maghrib
  /\ q.rounding = p.rounding

\* sunrise, dhuhr and maghrib of a schedule
SolarThree(T) == <<T.sunrise, T.dhuhr, T.maghrib>>

MaghribWithoutAngle(d, c, p) == TimesNew(d, c, [p EXCEPT !.maghrib_angle = 0])[1].maghrib

\* C17: with a positive maghrib_angle (4.5 degrees) maghrib is the instant
\* after transit at which the sun is that far below the horizon, so it is not
\* the maghrib of the same parameters with maghrib_angle 0.
C17_MaghribAngleUsed ==
  (ret.kind = "Ok" /\ AllSet /\ TheParams.maghrib_angle > 0)
    => ret.times.maghrib # MaghribWithoutAngle(TheDate, TheCoords, TheParams)

\* sunrise - night/7 and sunset + night/7 for the day d at c
SeventhBeforeSunrise(d, c) ==
  <<[SolarTime(d, c).sunrise EXCEPT !.t = @ - TruncDiv(NightOf(d, c), 7)]>>

SeventhAfterSunset(d, c) ==
  <<[SolarTime(d, c).sunset EXCEPT !.t = @ + TruncDiv(NightOf(d, c), 7)]>>

\* the angle-based times of fajr and isha for the day d at c: <<>> when the
\* sun does not reach the angle
FajrByAngle(d, c, p) ==
  time_for_solar_angle(SolarTime(d, c), [kind |-> "below", v |-> p.fajr_angle], FALSE)

IshaByAngle(d, c, p) ==
  time_for_solar_angle(SolarTime(d, c), [kind |-> "below", v |-> p.isha_angle], TRUE)

\* the fajr stored for the base time `base`: the later of it and the safe
\* floor, adjusted and rounded
FajrFromBase(base, d, c, p) ==
  ShiftedAndRounded(IF base.t < SafeFloorOf(d, c, p)
                    THEN [base EXCEPT !.t = SafeFloorOf(d, c, p)] ELSE base,
                    p.adjustments.fajr, p.method_adjustments.fajr, p)

\* the isha stored for the base time `base`: the earlier of it and the safe
\* bound, adjusted and rounded
IshaFromBase(base, d, c, p) ==
  ShiftedAndRounded(IF base.t > SafeBoundOf(d, c, p)
                    THEN [base EXCEPT !.t = SafeBoundOf(d, c, p)] ELSE base,
                    p.adjustments.isha, p.method_adjustments.isha, p)

\* the schedule T is the one that the base times base_fajr and base_isha
\* give (the isha only when no interval replaces it)
BuiltFromBases(T, base_fajr, base_isha, d, c, p) ==
  /\ base_fajr # <<>>
  /\ T.fajr = FajrFromBase(base_fajr[1], d, c, p)
  /\ p.isha_interval <= 0
       => (base_isha # <<>> /\ T.isha = IshaFromBase(base_isha[1], d, c, p))

C19_RoundingUpIsCeiling ==
  (ret.kind = "DateTime" /\ ret.rounding = "Up")
    => /\ ret.value.t % 60 = 0
       /\ ret.value.t >= argDate.t /\ ret.value.t - argDate.t < 60
       /\ argDate.t % 60 = 0 => ret.value = argDate
       /\ rounded_minute(ret.value, "Up") = ret.value

\* the seconds x of an hour value rounded to the nearest whole minute
NearestMinute(x) == ((x + 30) \div 60) * 60

\* C20: for a finite hour value h with -24 <= h < 48, setting_hour returns
\* Some instant: 00:00 UTC of the calendar day of the date plus h rounded to
\* the nearest whole minute (seconds >= 30 round up), whose seconds are 0.
C20_SettingHourInRange ==
  (ret.kind = "Option" /\ argHours # <<>>
     /\ -24 * 3600 <= argHours[1] /\ argHours[1] < 48 * 3600)
    => /\ ret.value # <<>>
       /\ ret.value = <<[t |-> date_naive(argDate) * 86400 + NearestMinute(argHours[1]),
                         tz |-> argDate.tz]>>
       /\ TimeOfDay(ret.value[1]) % 60 = 0
-----------------------------------------------------------------------------
(* Claims about the calendar functions (SpecCalendar).                      *)

\* twice the Julian day 2448908.5 of 1992-10-13, the value the test
\* calculate_julian_day expects
JulianDayOfTest == 4897817

\* the calendar day 1992-10-13 (day 287 of the leap year 1992)
DayOfTest == FromYO(1992, 287, 0, 0)

\* twice the Julian day of the calendar day of d, by counting the days since
\* 1992-10-13
JulianByCount(d) == JulianDayOfTest + 2 * (date_naive(d) - date_naive(DayOfTest))

\* the same time of day one calendar day later
DayLater(d) == [d EXCEPT !.t = @ + 86400]

\* the same time of day one calendar day earlier
DayEarlier(d) == [d EXCEPT !.t = @ - 86400]

\* number of leap years of the Gregorian calendar from year 1 to year y
LeapYearsTo(y) == (y \div 4) - (y \div 100) + (y \div 400)

\* twice the Julian day of day o of the year y, by counting the days and the
\* leap days since 1992-10-13
JulianOfDayByCount(y, o) ==
  JulianDayOfTest
    + 2 * (365 * (y - 1992) + LeapYearsTo(y - 1) - LeapYearsTo(1991) + o - 287)

\* C21: the Julian day of every date is the day count of the Gregorian
\* calendar (2448908.5 for 1992-10-13), and the Julian day of the following
\* calendar day is greater by exactly 1, also across the end of a month, the
\* end of a year and 29 February.  Values are in half days.
C21_JulianDay ==
  /\ ret.kind = "JulianDay" =>
        /\ ret.value = JulianByCount(argDate)
        /\ stride_julian_day(DayLater(argDate)) = ret.value + 2
        /\ (Year(argDate) = 1992 /\ Month(argDate) = 10 /\ Day(argDate) = 13)
             => ret.value = JulianDayOfTest
  /\ ret.kind = "JulianDayOf" => ret.value = JulianOfDayByCount(ret.year, ret.ordinal)

\* the Julian day of 29 February 2000, of 13 October 1992 and of 1 March 2100
\* has been computed
C21_Witness ==
  \/ /\ ret.kind = "JulianDay"
     /\ \/ Year(argDate) = 2000 /\ Month(argDate) = 2 /\ Day(argDate) = 29
        \/ Year(argDate) = 1992 /\ Month(argDate) = 10 /\ Day(argDate) = 13
  \/ ret.kind = "JulianDayOf" /\ ret.year = 2100 /\ ret.ordinal = 60

\* C23: tomorrow is the next calendar day and yesterday the previous one at
\* the same time of day, across the end of a year and of a leap year, and
\* each undoes the other.
C23_TomorrowYesterday ==
  /\ ret.kind = "Tomorrow" =>
        /\ ret.value = DayLater(argDate)
        /\ yesterday(ret.value) = argDate
  /\ ret.kind = "Yesterday" =>
        /\ ret.value = DayEarlier(argDate)
        /\ tomorrow(ret.value) = argDate

\* tomorrow of day 366 of the leap year 2016 is a day of 2017
C23_Witness ==
  /\ ret.kind = "Tomorrow"
  /\ Year(argDate) = 2016
  /\ Ordinal(argDate) = 366
  /\ Year(ret.value) = 2017
  /\ Ordinal(ret.value) = 1

\* C30: days_since_solstice completes without u32 underflow or overflow and
\* its value is at least 0 and less than the number of days of the year, in
\* the north and in the south.
C30_DaysSinceSolstice ==
  ret.kind = "DaysSinceSolstice" =>
    /\ ret.value # <<>>
    /\ ret.value[1] >= 0
    /\ ret.value[1] < DaysInYear(Year(argDate))

-----------------------------------------------------------------------------
(* Claims about the Angle functions (SpecAngle).                            *)

\* a < n degrees, for a whole number n >= 1
BelowDegrees(a, n) ==
  IF a[2] <= ExactScale THEN a[1] < n * Pow2(a[2]) ELSE TRUE

\* a >= -n degrees, for a whole number n >= 1
NotBelowMinusDegrees(a, n) ==
  IF a[2] <= ExactScale THEN a[1] >= -n * Pow2(a[2]) ELSE TRUE

\* a <= n degrees, for a whole number n >= 1
NotAboveDegrees(a, n) ==
  IF a[2] <= ExactScale THEN a[1] <= n * Pow2(a[2]) ELSE TRUE

\* a and b are the same number
SameAngle(a, b) ==
  \/ a = b
  \/ a[1] = 0 /\ b[1] = 0
  \/ a[2] <= ExactScale /\ b[2] <= ExactScale /\ a[1] * Pow2(b[2]) = b[1] * Pow2(a[2])

\* b - a is a whole multiple of 360 degrees
WholeTurnsApart(a, b) ==
  \/ SameAngle(a, b)
  \/ /\ a[2] <= ExactScale
     /\ b[2] <= ExactScale
     /\ (b[1] * Pow2(a[2]) - a[1] * Pow2(b[2])) % (360 * Pow2(a[2]) * Pow2(b[2])) = 0

\* C22: unwound maps every angle into [0, 360) and is idempotent;
\* quadrant_shifted maps every angle into [-180, 180], leaves the angles of
\* [-180, 180] unchanged and is idempotent; both change the angle by a whole
\* multiple of 360 degrees only.
C22_AngleNormalised ==
  /\ ret.kind = "Unwound" =>
        /\ ret.value[1] >= 0
        /\ BelowDegrees(ret.value, 360)
        /\ SameAngle(unwound(ret.value), ret.value)
        /\ WholeTurnsApart(argAngle, ret.value)
  /\ ret.kind = "QuadrantShifted" =>
        /\ NotBelowMinusDegrees(ret.value, 180)
        /\ NotAboveDegrees(ret.value, 180)
        /\ SameAngle(quadrant_shifted(ret.value), ret.value)
        /\ WholeTurnsApart(argAngle, ret.value)
        /\ (NotBelowMinusDegrees(argAngle, 180) /\ NotAboveDegrees(argAngle, 180))
             => ret.value = argAngle

-----------------------------------------------------------------------------
(* Claims about the queries (SpecQuery) and the schedules of consecutive     *)
(* dates (Spec).                                                             *)

\* the current event of t and the sunset window: DuringSunset, starting at
\* asr, exactly when maghrib is less than 21 minutes away, and Asr from asr
\* until then
SunsetWindowFirst(T, t, c) ==
  /\ c.event = "DuringSunset" <=> T.maghrib - t < 21 * 60
  /\ c.event = "DuringSunset" => c.time = T.asr
  /\ (T.asr <= t /\ t <= T.maghrib - 21 * 60) => c.event = "Asr"

SameNightNext(T, t, c, n) ==
  /\ (c.event = "Isha" /\ t >= T.maghrib)
       => n = [event |-> "AfterMidnight", time |-> T.midnight]
  /\ (c.event = "Isha" /\ t < T.fajr)
       => n = [event |-> "AfterMidnight", time |-> T.midnight_yesterday]
  /\ (c.event = "AfterMidnight" /\ t >= T.maghrib)
       => n = [event |-> "Qiyam", time |-> T.qiyam]
  /\ (c.event = "AfterMidnight" /\ t < T.fajr)
       => n = [event |-> "Qiyam", time |-> T.qiyam_yesterday]

\* C25: when the current event is Isha or AfterMidnight, next() reports the
\* midnight or the qiyam of the night the instant lies in, in every time
\* zone and whatever the calendar days of isha and midnight.
C25_NextOfSameNight ==
  (expected # <<>> /\ Ordered(times))
    => SameNightNext(times, now, expected[1].current, expected[1].next)

\* C26: in a strictly ordered schedule, for every instant before
\* fajr_tomorrow, the instant next() reports is later than the instant asked
\* about, and time_remaining is not negative.
C26_NextIsLater ==
  /\ (expected # <<>> /\ Ordered(times) /\ now < times.fajr_tomorrow)
       => expected[1].next.time > now
  /\ (remaining # <<>> /\ Ordered(times) /\ now < times.fajr_tomorrow)
       => (remaining[1][1] >= 0 /\ remaining[1][2] >= 0)

\* C27: the start instant reported with the current event is not later than
\* the instant asked about.
C27_CurrentHasStarted ==
  expected # <<>> => expected[1].current.time <= now

\* C28: in a strictly ordered schedule, for every instant before
\* fajr_tomorrow, current() at the instant next() announces reports the
\* announced event.
C28_CurrentAtNext ==
  (expected # <<>> /\ Ordered(times) /\ now < times.fajr_tomorrow)
    => current(times, expected[1].next.time).event = expected[1].next.event

\* the schedule Times::new returns for the day after d: <<>> or <<Times>>
TimesOfNextDate(d, c, p) == TimesNew(tomorrow(d), c, p)

\* the schedule T of one date and the schedule U of the next date agree on
\* the night they share
SharedNight(T, U) ==
  /\ T.fajr_tomorrow = U.fajr
  /\ T.midnight = U.midnight_yesterday
  /\ T.qiyam = U.qiyam_yesterday

\* C29: for the same coordinates and parameters, the schedule of a date and
\* the schedule of the next date have fajr_tomorrow = fajr, midnight =
\* midnight_yesterday and qiyam = qiyam_yesterday.
C29_ConsecutiveDatesAgree ==
  (ret.kind = "Ok" /\ AllSet /\ TimesOfNextDate(TheDate, TheCoords, TheParams) # <<>>)
    => SharedNight(ret.times, TimesOfNextDate(TheDate, TheCoords, TheParams)[1])

\* C29 witness: a schedule of the Moonsighting Committee method built for
\* 12 July 2015 at UTC-4, where the schedule of 13 July exists and has the
\* same midnight as its midnight_yesterday.
C29_Witness ==
  /\ ret.kind = "Ok"
  /\ AllSet
  /\ TheDate = FromYO(2015, 193, 0, -14400)
  /\ TheParams.method = "MoonsightingCommittee"
  /\ TimesOfNextDate(TheDate, TheCoords, TheParams) # <<>>
  /\ ret.times.midnight = TimesOfNextDate(TheDate, TheCoords, TheParams)[1].midnight_yesterday
  /\ ret.times.midnight > ret.times.maghrib

====
